---- MODULE Spec2Model ----
(***************************************************************************)
(* Threshold ML-DSA (FIPS 204) - ring primitives, baseline sign/verify,    *)
(* threshold keygen / signing rounds / combine, and the four-phase DKG.    *)
(*                                                                         *)
(* Byte strings produced by SHAKE256 are modelled symbolically: a digest   *)
(* is the tuple of the hashed fields, so equal digests mean equal inputs.  *)
(* XOF output that the code turns into coefficients is a fixed arithmetic  *)
(* mix of the seed and the index (Xof).  Integers are TLC's 32-bit         *)
(* integers, so a product of two 23-bit values is computed limb by limb.   *)
(*                                                                         *)
(* Four specifications share the variables: SpecSign (the local sign of    *)
(* ThresholdMLDSA), SpecRounds (round1, round2, round3, combine),          *)
(* SpecMlDsa (the baseline ml_dsa keygen, sign, verify) and SpecDkg (the   *)
(* distributed key generation).  The DKG operators follow the protocol     *)
(* description and the calls of test/dkg.test.ts.                          *)
(***************************************************************************)
EXTENDS Integers, Sequences, FiniteSets, TLC

VARIABLES
    pc,        \* position of the driver of the specification in use
    cfg,       \* [level, params]: the ThresholdMLDSA instance
    keys,      \* [publicKey, shares]: result of keygen
    sess,      \* the inputs of the operation under study
    coms,      \* commitments (ws) and hyperball states (stws) of the parties;
               \* in a DKG session the Phase-1 results
    wfin,      \* aggregated commitments; the Phase-4 broadcasts
    rsps,      \* responses (zs) of the parties; the Phase-2-finalize results
    st2,       \* round 2 of the distributed protocol: what each party got
               \* back; the Phase-2 results
    out        \* what the operation under study returned

vars == <<pc, cfg, keys, sess, coms, wfin, rsps, st2, out>>

(***************************** bounds *************************************)
\* The ring degree of the model is 2^LogN (the source: N = 256 = 2^8).
LogN == 1
\* K and L of the parameter set are capped to MaxDim polynomials.
MaxDim == 1
\* K_iter of the threshold parameter table is capped to MaxIter.
MaxIter == 2
\* The rejection loop of sign (500 attempts in the source) is capped to
\* MaxAttempts attempts.
MaxAttempts == 2

PolyN == 2 ^ LogN

(************************* ring constants *********************************)
Q == 8380417
ROOT_OF_UNITY == 1753
D == 13
GAMMA2_1 == (Q - 1) \div 88
GAMMA2_2 == (Q - 1) \div 32
N == 256

\* let v = ... in In(v): v is computed first, and once
Let(v, In(_)) == <<v, In(v)>>[2]

Min(a, b) == IF a < b THEN a ELSE b
Abs(a) == IF a < 0 THEN -a ELSE a

\* mod / smod of _crystals.ts: mod in [0, m), smod in (-m/2, m/2].
modm(a, m) == a % m
smodm(a, m) == LET r == modm(a, m) IN IF r > m \div 2 THEN r - m ELSE r
mod(a) == modm(a, Q)
smod(a) == smodm(a, Q)

\* a * b mod Q for a, b in [0, Q): the code multiplies in a 53-bit float;
\* here b is split into three limbs so that no product leaves 31 bits.
MulMod(a, b) ==
    (((a * (b % 256)) % Q)
       + ((((((a * ((b \div 256) % 256)) % Q)
               + ((((a * (b \div 65536)) % Q) * 256) % Q)) % Q) * 256) % Q)) % Q

RECURSIVE PowMod(_, _)
PowMod(a, e) ==
    IF e = 0 THEN 1
    ELSE Let(PowMod(a, e \div 2), LAMBDA h :
             IF e % 2 = 1 THEN MulMod(MulMod(h, h), a % Q) ELSE MulMod(h, h))

Idx == 1..PolyN


\* The array <<f[1], ..., f[k]>> with every element computed, as a loop of
\* the code fills it.
TupleTo(f, k) == SubSeq(f, 1, k)
Poly(f) == SubSeq(f, 1, PolyN)
ZeroPoly == Poly([i \in Idx |-> 0])

\* f[lo] + ... + f[hi], by halves
RECURSIVE SumRange(_, _, _)
SumRange(f, lo, hi) ==
    IF lo > hi THEN 0
    ELSE IF lo = hi THEN f[lo]
    ELSE SumRange(f, lo, (lo + hi) \div 2) + SumRange(f, ((lo + hi) \div 2) + 1, hi)
SumInt(f) == SumRange(f, 1, Len(f))
\* the sum mod Q of f[1..k], every f[i] in [0, Q)
SumModQ(f, k) == SumRange(f, 1, k) % Q

(******************************* NTT **************************************)
\* psi: a primitive 2*PolyN-th root of unity derived from ROOT_OF_UNITY.
Psi == PowMod(ROOT_OF_UNITY, N \div PolyN)
ZetaTab == [e \in 0..(2 * PolyN - 1) |-> PowMod(Psi, e)]
\* F = PolyN^-1 mod Q (the source: 256^-1 = 8347681), as a power of 2^-1.
F == PowMod((Q + 1) \div 2, LogN)

NTTencode(r) ==
    Poly([k \in Idx |->
        SumModQ([j \in Idx |->
                   MulMod(mod(r[j]), ZetaTab[((2 * (k - 1) + 1) * (j - 1)) % (2 * PolyN)])],
                PolyN)])

\* the inverse transform's twiddles, each with the factor F
InvZetaTab == [e \in 0..(2 * PolyN - 1) |-> MulMod(F, ZetaTab[(2 * PolyN - e) % (2 * PolyN)])]
NTTdecode(r) ==
    Poly([j \in Idx |->
        SumModQ([k \in Idx |->
                   MulMod(mod(r[k]), InvZetaTab[((2 * (k - 1) + 1) * (j - 1)) % (2 * PolyN)])],
                PolyN)])

(*************************** ring arithmetic ******************************)
polyAdd(a, b) == Poly([i \in Idx |-> mod(a[i] + b[i])])
polySub(a, b) == Poly([i \in Idx |-> mod(a[i] - b[i])])
polyShiftl(p) == Poly([i \in Idx |-> p[i] * (2 ^ D)])
\* a polyChknorm that finds every norm in bounds
polyChknormNever(p, B) == FALSE
polyChknorm(p, B) == \E i \in Idx : Abs(smod(p[i])) >= B
MultiplyNTTs(a, b) == Poly([i \in Idx |-> MulMod(mod(a[i]), mod(b[i]))])

(************************* parameter sets *********************************)
\* PARAMS of ml-dsa.ts, keyed by security level.  K and L are capped to
\* MaxDim; TAU and OMEGA are capped to what a ring of degree PolyN can reach.
Levels == {44, 65, 87}
PARAMS(level) ==
    LET k == IF level = 44 THEN 4 ELSE IF level = 65 THEN 6 ELSE 8
        l == IF level = 44 THEN 4 ELSE IF level = 65 THEN 5 ELSE 7
        kk == Min(k, MaxDim)
    IN  [K |-> kk,
         L |-> Min(l, MaxDim),
         D |-> D,
         GAMMA1 |-> IF level = 44 THEN 2 ^ 17 ELSE 2 ^ 19,
         GAMMA2 |-> IF level = 44 THEN GAMMA2_1 ELSE GAMMA2_2,
         TAU |-> Min(IF level = 44 THEN 39 ELSE IF level = 65 THEN 49 ELSE 60, PolyN),
         ETA |-> IF level = 65 THEN 4 ELSE 2,
         C_TILDE_BYTES |-> IF level = 44 THEN 32 ELSE IF level = 65 THEN 48 ELSE 64,
         OMEGA |-> Min(IF level = 44 THEN 80 ELSE IF level = 65 THEN 55 ELSE 75,
                       PolyN * kk - 1)]

BETA(p) == p.TAU * p.ETA

MAX_PARTIES == 6
TR_BYTES == 64
CRH_BYTES == 64

\* [K_iter, r, rPrime] keyed by N (2..6) and indexed by T-2.
PARAMS_44 ==
    [n \in 2..6 |->
       CASE n = 2 -> << <<2, 252778, 252833>> >>
         [] n = 3 -> << <<3, 310060, 310138>>, <<4, 246490, 246546>> >>
         [] n = 4 -> << <<3, 305919, 305997>>, <<7, 279235, 279314>>, <<8, 243463, 243519>> >>
         [] n = 5 -> << <<3, 285363, 285459>>, <<14, 282800, 282912>>, <<30, 259427, 259526>>,
                        <<16, 239924, 239981>> >>
         [] n = 6 -> << <<4, 300265, 300362>>, <<19, 277014, 277139>>, <<74, 268705, 268831>>,
                        <<100, 250590, 250686>>, <<37, 219245, 219301>> >>]
PARAMS_65 ==
    [n \in 2..6 |->
       CASE n = 2 -> << <<2, 344000, 344080>> >>
         [] n = 3 -> << <<3, 421700, 421810>>, <<4, 335200, 335290>> >>
         [] n = 4 -> << <<3, 416000, 416110>>, <<7, 379600, 379710>>, <<8, 331000, 331090>> >>
         [] n = 5 -> << <<3, 388000, 388130>>, <<14, 384600, 384750>>, <<30, 352800, 352940>>,
                        <<16, 326200, 326280>> >>
         [] n = 6 -> << <<4, 408300, 408430>>, <<19, 376700, 376870>>, <<74, 365400, 365570>>,
                        <<100, 340700, 340830>>, <<37, 298000, 298080>> >>]
PARAMS_87 ==
    [n \in 2..6 |->
       CASE n = 2 -> << <<2, 442000, 442100>> >>
         [] n = 3 -> << <<3, 541600, 541740>>, <<4, 430600, 430710>> >>
         [] n = 4 -> << <<3, 534200, 534340>>, <<7, 487500, 487640>>, <<8, 425100, 425210>> >>
         [] n = 5 -> << <<3, 498200, 498370>>, <<14, 494200, 494400>>, <<30, 453300, 453470>>,
                        <<16, 419100, 419210>> >>
         [] n = 6 -> << <<4, 524300, 524470>>, <<19, 483600, 483820>>, <<74, 469200, 469420>>,
                        <<100, 437400, 437570>>, <<37, 382800, 382910>> >>]
ALL_PARAMS(level) ==
    IF level = 44 THEN PARAMS_44 ELSE IF level = 65 THEN PARAMS_65 ELSE PARAMS_87

\* a normalizeSecurityLevel that knows no alias
normalizeNothing(level) == level
normalizeSecurityLevel(level) ==
    IF level = 128 THEN 44 ELSE IF level = 192 THEN 65 ELSE IF level = 256 THEN 87 ELSE level

\* getParams: the thrown message, or the parameter record.
getParams(T, N_, securityLevel) ==
    LET level == normalizeSecurityLevel(securityLevel) IN
    IF level \notin Levels THEN [err |-> "Unsupported security level"]
    ELSE IF T < 2 THEN [err |-> "Threshold T must be >= 2"]
    ELSE IF T > N_ THEN [err |-> "Threshold T must be <= N"]
    ELSE IF N_ > MAX_PARTIES THEN [err |-> "N must be <= 6"]
    ELSE IF N_ < 2 THEN [err |-> "N must be >= 2"]
    ELSE IF N_ \notin DOMAIN ALL_PARAMS(level) THEN [err |-> "No parameters for N"]
    ELSE LET entries == ALL_PARAMS(level)[N_]
             idx == T - 2
         IN  IF idx < 0 \/ idx >= Len(entries) THEN [err |-> "No parameters for T, N"]
             ELSE [err |-> "", T |-> T, N |-> N_,
                   K_iter |-> entries[idx + 1][1],
                   nu |-> 3, r |-> entries[idx + 1][2], rPrime |-> entries[idx + 1][3]]
\* the parameters the model runs the protocol with: K_iter is capped to
\* MaxIter parallel iterations
cappedParams(params) ==
    IF params.err # "" THEN params ELSE [params EXCEPT !.K_iter = Min(@, MaxIter)]
\* getDSAOpts: whether it throws 'Unsupported security level'
getDSAOptsThrows(securityLevel) == securityLevel \notin {44, 128, 65, 192, 87, 256}
\* create: the thrown message, or the params of the new instance
create(securityLevel, T, N_) ==
    Let(getParams(T, N_, securityLevel), LAMBDA params :
        IF params.err # "" THEN [err |-> params.err]
        ELSE IF getDSAOptsThrows(securityLevel) THEN [err |-> "Unsupported security level"]
        ELSE [err |-> "", params |-> params])

getSharingPattern(T, N_) ==
    CASE T = 2 /\ N_ = 3 -> << <<3, 5>>, <<6>> >>
      [] T = 2 /\ N_ = 4 -> << <<11, 13>>, <<7, 14>> >>
      [] T = 3 /\ N_ = 4 -> << <<3, 9>>, <<6, 10>>, <<12, 5>> >>
      [] T = 2 /\ N_ = 5 -> << <<27, 29, 23>>, <<30, 15>> >>
      [] T = 3 /\ N_ = 5 -> << <<25, 11, 19, 13>>, <<7, 14, 22, 26>>, <<28, 21>> >>
      [] T = 4 /\ N_ = 5 -> << <<3, 9, 17>>, <<6, 10, 18>>, <<12, 5, 20>>, <<24>> >>
      [] T = 2 /\ N_ = 6 -> << <<61, 47, 55>>, <<62, 31, 59>> >>
      [] T = 3 /\ N_ = 6 -> << <<27, 23, 43, 57, 39>>, <<51, 58, 46, 30, 54>>,
                               <<45, 53, 29, 15, 60>> >>
      [] T = 4 /\ N_ = 6 -> << <<19, 13, 35, 7, 49>>, <<42, 26, 38, 50, 22>>,
                               <<52, 21, 44, 28, 37>>, <<25, 11, 14, 56, 41>> >>
      [] T = 5 /\ N_ = 6 -> << <<3, 5, 33>>, <<6, 10, 34>>, <<12, 20, 36>>, <<9, 24, 40>>,
                               <<48, 17, 18>> >>
      [] OTHER -> << >>

(****************************** SHAKE / XOF *******************************)
\* A byte string is a sequence of integers.  A SHAKE256 digest is the
\* absorbed string tagged with the requested output length: two digests
\* are equal iff the lengths and the absorbed data are.  Where the code
\* squeezes an XOF into numbers, the i-th number is Xof(seed, i): a fixed
\* mixing function of the absorbed string and the position in the stream.
shake256(data, dkLen) == <<-dkLen>> \o data

\* the weights of the positions of the absorbed string
FoldWeight == TupleTo([e \in 1..64 |-> PowMod(251, e)], 64)
FoldTo(s, k) ==
    SumModQ([i \in 1..k |-> MulMod((s[i] % Q) + 1, FoldWeight[((k - i) % 64) + 1])], k)
Mix(x) == (x * 251 + 12345 + MulMod(MulMod(x, x), (x + ROOT_OF_UNITY) % Q)) % Q
Fold(s) == Mix(Mix(FoldTo(s, Len(s))))
Xof(seed, i) == Fold(seed \o <<i>>)

\* bits of a bitmask
Bit(m, i) == (m \div (2 ^ i)) % 2
PopCount(m) == Cardinality({i \in 0..(MAX_PARTIES - 1) : Bit(m, i) = 1})


(***************************** decomposition ******************************)
decompose(p, r) ==
    LET rPlus == mod(r)
        r0 == smodm(rPlus, 2 * p.GAMMA2)
    IN  IF rPlus - r0 = Q - 1 THEN [r1 |-> 0, r0 |-> r0 - 1]
        ELSE [r1 |-> (rPlus - r0) \div (2 * p.GAMMA2), r0 |-> r0]
HighBits(p, r) == decompose(p, r).r1
LowBits(p, r) == decompose(p, r).r0

\* a MakeHint that never sets a hint bit
MakeHintNever(p, z, r) == 0
MakeHint(p, z, r) ==
    IF z <= p.GAMMA2 \/ z > Q - p.GAMMA2 \/ (z = Q - p.GAMMA2 /\ r = 0) THEN 0 ELSE 1

\* a UseHint that steps the high bits up whatever the sign of the low bits
UseHintUp(p, h, r) ==
    LET m == (Q - 1) \div (2 * p.GAMMA2)
        d == decompose(p, r)
    IN  IF h = 1 THEN modm(d.r1 + 1, m) ELSE d.r1
UseHint(p, h, r) ==
    LET m == (Q - 1) \div (2 * p.GAMMA2)
        d == decompose(p, r)
    IN  IF h = 1 THEN (IF d.r0 > 0 THEN modm(d.r1 + 1, m) ELSE modm(d.r1 - 1, m))
        ELSE d.r1

Power2Round(r) ==
    LET rPlus == mod(r)
        r0 == smodm(rPlus, 2 ^ D)
    IN  [r1 |-> (rPlus - r0) \div (2 ^ D), r0 |-> r0]

polyPowerRound(poly) ==
    [r0 |-> Poly([i \in Idx |-> Power2Round(poly[i]).r0]),
     r1 |-> Poly([i \in Idx |-> Power2Round(poly[i]).r1])]
polyUseHint(p, u, h) == Poly([i \in Idx |-> UseHint(p, h[i], u[i])])
polyMakeHint(p, a, b) ==
    LET v == Poly([i \in Idx |-> MakeHint(p, a[i], b[i])])
    IN  [v |-> v, cnt |-> Cardinality({i \in Idx : v[i] = 1})]

(********************************* coders *********************************)
\* bitsCoder writes the low d bits of compress(c) per coefficient and reads
\* them back through the same map; a coded polynomial is kept as its
\* sequence of d-bit fields.
T1Bits == 10
T1Encode(poly) == Poly([i \in Idx |-> poly[i] % (2 ^ T1Bits)])
T1Decode(f) == Poly([i \in Idx |-> f[i]])

ZBits(p) == IF p.GAMMA1 = 2 ^ 17 THEN 18 ELSE 20
ZEncode(p, poly) == Poly([i \in Idx |-> smod(p.GAMMA1 - poly[i]) % (2 ^ ZBits(p))])
ZDecode(p, f) == Poly([i \in Idx |-> smod(p.GAMMA1 - f[i])])

W1Bits(p) == IF p.GAMMA2 = GAMMA2_1 THEN 6 ELSE 4
W1Encode(p, poly) == Poly([i \in Idx |-> poly[i] % (2 ^ W1Bits(p))])
W1VecEncode(p, w1) == TupleTo([i \in 1..p.K |-> W1Encode(p, w1[i])], p.K)

\* hintCoder.encode: positions 0..OMEGA-1 hold the indices of the set
\* coefficients, positions OMEGA..OMEGA+K-1 the running counts.  A write
\* past the end of the Uint8Array is dropped.
RECURSIVE HintEncodeStep(_, _, _, _, _)
HintEncodeStep(p, h, res, k, at) ==
    \* at = <<i, j>>: polynomial i (1-based), coefficient j (1-based)
    LET i == at[1]
        j == at[2]
        Put(a, pos, v) == IF pos + 1 \in DOMAIN a THEN [a EXCEPT ![pos + 1] = v] ELSE a
    IN  IF i > p.K THEN res
        ELSE IF j > PolyN
             THEN HintEncodeStep(p, h, Put(res, p.OMEGA + i - 1, k % 256), k, <<i + 1, 1>>)
             ELSE IF h[i][j] # 0
                  THEN HintEncodeStep(p, h, Put(res, k, j - 1), k + 1, <<i, j + 1>>)
                  ELSE HintEncodeStep(p, h, res, k, <<i, j + 1>>)
hintEncode(p, h) ==
    HintEncodeStep(p, h, TupleTo([x \in 1..(p.OMEGA + p.K) |-> 0], p.OMEGA + p.K), 0, <<1, 1>>)

\* hintCoder.decode: false (ok = FALSE), or the K hint polynomials.
RECURSIVE HintDecodeStep(_, _, _, _, _)
HintDecodeStep(p, buf, i, k, acc) ==
    IF i > p.K
    THEN IF \E j \in k..(p.OMEGA - 1) : buf[j + 1] # 0 THEN [ok |-> FALSE]
         ELSE [ok |-> TRUE, h |-> acc]
    ELSE LET lim == buf[p.OMEGA + i] IN
         IF lim < k \/ lim > p.OMEGA THEN [ok |-> FALSE]
         ELSE IF \E j \in k..(lim - 1) : j > k /\ buf[j + 1] <= buf[j] THEN [ok |-> FALSE]
         ELSE HintDecodeStep(p, buf, i + 1, lim,
                Append(acc, Poly([c \in Idx |->
                               IF \E j \in k..(lim - 1) : buf[j + 1] = c - 1 THEN 1 ELSE 0])))
\* a decoder that does not look at the bytes after the last cursor
RECURSIVE HintDecodeLooseStep(_, _, _, _, _)
HintDecodeLooseStep(p, buf, i, k, acc) ==
    IF i > p.K THEN [ok |-> TRUE, h |-> acc]
    ELSE LET lim == buf[p.OMEGA + i] IN
         IF lim < k \/ lim > p.OMEGA THEN [ok |-> FALSE]
         ELSE IF \E j \in k..(lim - 1) : j > k /\ buf[j + 1] <= buf[j] THEN [ok |-> FALSE]
         ELSE HintDecodeLooseStep(p, buf, i + 1, lim,
                Append(acc, Poly([c \in Idx |->
                               IF \E j \in k..(lim - 1) : buf[j + 1] = c - 1 THEN 1 ELSE 0])))
hintDecodeLoose(p, buf) == HintDecodeLooseStep(p, buf, 1, 0, << >>)
hintDecode(p, buf) == HintDecodeStep(p, buf, 1, 0, << >>)

(******************************** sampling ********************************)
\* RejNTTPoly over XOF128(rho).get(j, i): uniform coefficients below Q.
RejNTTPoly(rho, j, i) == Poly([c \in Idx |-> Xof(rho \o <<j, i>>, c)])
ExpandA(p, rho) ==
    TupleTo([i \in 1..p.K |-> TupleTo([j \in 1..p.L |-> RejNTTPoly(rho, j - 1, i - 1)], p.L)], p.K)

\* SampleInBall: TAU coefficients of +-1 placed by the in-place shuffle.
RECURSIVE SampleInBallStep(_, _, _, _)
SampleInBallStep(p, seed, pre, i) ==
    \* i is the 0-based position of the code's loop
    IF i >= PolyN THEN pre
    ELSE LET b == Xof(seed, i) % (i + 1)
             sgn == 1 - 2 * (Xof(seed, PolyN + i) % 2)
             moved == [pre EXCEPT ![i + 1] = pre[b + 1]]
         IN  SampleInBallStep(p, seed, [moved EXCEPT ![b + 1] = sgn], i + 1)
SampleInBall(p, seed) == SampleInBallStep(p, seed, ZeroPoly, PolyN - p.TAU)


(****************************** vectors ***********************************)
\* acc after polyAdd(acc, ps[k]) for k, k+1, ..., Len(ps)
\* the sum of the polynomials ps, as repeated polyAdd leaves it
PolySum(ps) ==
    Poly([c \in Idx |-> SumModQ([k \in 1..Len(ps) |-> ps[k][c]], Len(ps))])
\* buf.fill(0), cleanBytes(buf)
Filled0(buf) == [i \in 1..Len(buf) |-> 0]
ZeroVec(d) == TupleTo([i \in 1..d |-> ZeroPoly], d)
VecAdd(a, b) == TupleTo([i \in 1..Len(a) |-> polyAdd(a[i], b[i])], Len(a))
VecNTT(v) == TupleTo([i \in 1..Len(v) |-> NTTencode(v[i])], Len(v))
VecInvNTT(v) == TupleTo([i \in 1..Len(v) |-> NTTdecode(v[i])], Len(v))
\* row i of A times the NTT-domain vector vHat, still in the NTT domain
RowTimes(p, A, i, vHat) ==
    Let(TupleTo([j \in 1..p.L |-> MultiplyNTTs(A[i][j], vHat[j])], p.L), LAMBDA ps : PolySum(ps))
\* A times vHat, back in the coefficient domain
MatVec(p, A, vHat) ==
    Let(TupleTo([i \in 1..p.K |-> RowTimes(p, A, i, vHat)], p.K), LAMBDA rows : VecInvNTT(rows))
\* the sum of the vectors vs of d polynomials
VecSum(vs, d) ==
    TupleTo([i \in 1..d |-> PolySum(TupleTo([k \in 1..Len(vs) |-> vs[k][i]], Len(vs)))], d)

(************************ bit operations on ids ***************************)
MaskBits == MAX_PARTIES + 1
BitAnd(a, b) == LET S == {i \in 0..(MaskBits - 1) : Bit(a, i) = 1 /\ Bit(b, i) = 1}
                    f == [i \in 0..(MaskBits - 1) |-> IF i \in S THEN 2 ^ i ELSE 0]
                    g[i \in 0..MaskBits] == IF i = 0 THEN 0 ELSE g[i - 1] + f[i - 1]
                IN  g[MaskBits]
BitOr(a, b) == a + b - BitAnd(a, b)
BitXor(a, b) == a + b - 2 * BitAnd(a, b)
\* hs & -hs: the lowest set bit
LowBit(hs) == 2 ^ (CHOOSE i \in 0..(MaskBits - 1) :
                      Bit(hs, i) = 1 /\ \A j \in 0..(i - 1) : Bit(hs, j) = 0)

(**************************** threshold keygen ****************************)
\* #deriveUniformLeqEta: coefficients mod(Q + ETA - t), t uniform in 0..2*ETA.
deriveUniformLeqEta(p, seed, nonce) ==
    Poly([c \in Idx |-> mod(Q + p.ETA - (Xof(seed \o <<nonce>>, c) % (2 * p.ETA + 1)))])

\* Gosper's hack with its quotient rounded to the nearest integer
GosperNextRounded(hs) ==
    Let(LowBit(hs), LAMBDA c :
        BitOr((2 * (BitXor(hs + c, hs) \div 4) + c) \div (2 * c), hs + c))
\* Gosper's hack as written in keygen: the next mask with as many bits set.
\* The quotient of the float division is cut to its integer part by `|`.
GosperNext(hs) ==
    Let(LowBit(hs), LAMBDA c : BitOr((BitXor(hs + c, hs) \div 4) \div c, hs + c))
\* the values hs takes in the while loop of keygen, starting from hs and
\* ending before the first one that is not below 2^N; n bounds their number
RECURSIVE GosperFrom(_, _, _)
GosperFrom(hs, N_, n) ==
    IF hs >= 2 ^ N_ THEN << >>
    ELSE IF n <= 1 THEN <<hs>>
    ELSE Let(GosperFrom(hs, N_, n \div 2), LAMBDA a :
             IF Len(a) < n \div 2 THEN a
             ELSE a \o GosperFrom(GosperNext(a[Len(a)]), N_, n - n \div 2))
\* the masks visited by the while loop of keygen, in order, for every (T, N)
MasksTab ==
    TupleTo([n \in 1..MAX_PARTIES |->
               TupleTo([t \in 1..n |-> GosperFrom(2 ^ (n - t + 1) - 1, n, 2 ^ n)], n)],
            MAX_PARTIES)
KeygenMasks(T, N_) == MasksTab[N_][T]

\* the SecretShare sampled for the m-th mask (m is 0-based) of the loop
KeygenShare(p, hseed, N_, m) ==
    Let(<<Xof(hseed, 1 + N_ + m)>>, LAMBDA sSeed :
    Let([s1 |-> TupleTo([j \in 1..p.L |-> deriveUniformLeqEta(p, sSeed, j - 1)], p.L),
         s2 |-> TupleTo([j \in 1..p.K |-> deriveUniformLeqEta(p, sSeed, j - 1 + p.L)], p.K)],
        LAMBDA s : [s1 |-> s.s1, s2 |-> s.s2, s1Hat |-> VecNTT(s.s1), s2Hat |-> VecNTT(s.s2)]))

\* publicCoder.encode([rho, t1])
publicEncode(rho, t1) ==
    [rho |-> rho, t1 |-> TupleTo([i \in 1..Len(t1) |-> T1Encode(t1[i])], Len(t1))]
publicDecode(pk) ==
    [rho |-> pk.rho, t1 |-> TupleTo([i \in 1..Len(pk.t1) |-> T1Decode(pk.t1[i])], Len(pk.t1))]
\* the bytes of an encoded public key, as absorbed by SHAKE256
RECURSIVE FlattenTo(_, _)
FlattenTo(ss, k) == IF k = 0 THEN << >> ELSE FlattenTo(ss, k - 1) \o ss[k]
Flatten(ss) == FlattenTo(ss, Len(ss))
publicBytes(pk) == pk.rho \o Flatten(pk.t1)

\* a share map with the shares of all the masks
ShareMapAll(masks, sh, i) ==
    [b \in {masks[m] : m \in 1..Len(masks)} |->
       sh[CHOOSE m \in 1..Len(masks) : masks[m] = b]]
\* the share map of party i: the shares of the masks that have bit i
ShareMap(masks, sh, i) ==
    [b \in {masks[m] : m \in {x \in 1..Len(masks) : Bit(masks[x], i) = 1}} |->
       sh[CHOOSE m \in 1..Len(masks) : masks[m] = b]]

keygen(level, T, N_, seed) ==
    LET p == PARAMS(level)
        hseed == <<seed, p.K, p.L>>
        rho == <<Xof(hseed, 0)>>
        masks == KeygenMasks(T, N_)
    IN  Let(TupleTo([m \in 1..Len(masks) |-> KeygenShare(p, hseed, N_, m - 1)], Len(masks)),
            LAMBDA sh :
        Let(<<VecSum(TupleTo([m \in 1..Len(masks) |-> sh[m].s1Hat], Len(masks)), p.L),
              VecSum(TupleTo([m \in 1..Len(masks) |-> sh[m].s2], Len(masks)), p.K),
              ExpandA(p, rho)>>, LAMBDA total :
        Let(MatVec(p, total[3], total[1]), LAMBDA As1 :
        Let(VecAdd(As1, total[2]), LAMBDA t :
        Let(publicEncode(rho, TupleTo([i \in 1..p.K |-> polyPowerRound(t[i]).r1], p.K)),
            LAMBDA publicKey :
            [publicKey |-> publicKey,
             shares |-> [i \in 0..(N_ - 1) |->
                           [id |-> i, rho |-> rho, key |-> <<Xof(hseed, 1 + i)>>,
                            tr |-> shake256(publicBytes(publicKey), TR_BYTES),
                            shares |-> ShareMap(masks, sh, i)]]])))))

(************************ FVec (Float64 vector) ***************************)
\* A Float64 value is kept in halves (2*x), so that Math.round has something
\* to round.  The model keeps the first PolyN coefficients of K + L
\* polynomials; Dropped is the number of Gaussian samples of the hyperball
\* vector beyond them, each counted with unit mass in its squared norm.
Dropped(p) == (N - PolyN) * (p.K + p.L)
GaussTab == <<0, 0, 0, 0, 1, 1, 1, -1, -1, -1, 2, 2, -2, -2, 3, -3>>
Gauss(x) == GaussTab[(x % 16) + 1]

\* floor(sqrt(x)) for 0 <= x < 2^20
Isqrt(x) ==
    LET a == CHOOSE c \in 0..63 : (16 * c) * (16 * c) <= x /\ x < (16 * (c + 1)) * (16 * (c + 1))
    IN  CHOOSE s \in (16 * a)..(16 * a + 15) : s * s <= x /\ x < (s + 1) * (s + 1)

\* sampleHyperball: Box-Muller samples from SHAKE256('H' || rhop || nonce),
\* the first N*L scaled by nu, all normalised to the sphere of radius rPrime.
\* The result carries sq, the squared norm of all the samples.
sampleHyperball(p, rPrime, nu, rhop, nonce) ==
    LET dim == PolyN * (p.K + p.L)
        seed == <<72>> \o rhop \o <<nonce % 256, (nonce \div 256) % 256>>
    IN  Let(TupleTo([i \in 1..(dim + 2) |-> Gauss(Xof(seed, i))], dim + 2), LAMBDA g :
        Let(SumInt(TupleTo([i \in 1..(dim + 2) |-> g[i] * g[i]], dim + 2)) + Dropped(p),
            LAMBDA sq :
        Let(Isqrt(256 * sq), LAMBDA s16 :
            [v |-> TupleTo([i \in 1..dim |->
                              (2 * g[i] * (IF i <= PolyN * p.L THEN nu ELSE 1) * rPrime * 16)
                                \div s16], dim),
             sq |-> sq])))

fvecAdd(a, b) == TupleTo([i \in 1..Len(a) |-> a[i] + b[i]], Len(a))

\* fvecExcess: weighted squared norm > r*r.  The sums are taken in units of
\* 2^10 (each value floored to a multiple of 32), where the code sums doubles;
\* the dropped samples enter with their share rPrime^2 / sq each.
Sq32(h) == (Abs(h) \div 64) * (Abs(h) \div 64)
fvecExcess(p, v, sq, r, rPrime, nu) ==
    LET dim == PolyN * (p.K + p.L)
        rest == (((rPrime \div 32) * (rPrime \div 32)) \div sq) * Dropped(p)
    IN  SumInt(TupleTo([i \in 1..dim |->
                          IF i <= PolyN * p.L THEN Sq32(v[i]) \div (nu * nu)
                          ELSE Sq32(v[i])], dim)) + rest > (r \div 32) * (r \div 32)

\* fvecFrom: the centered representatives of (s1, s2)
fvecFrom(p, s1, s2) ==
    TupleTo([x \in 1..(PolyN * (p.K + p.L)) |->
               LET i == (x - 1) \div PolyN
                   j == ((x - 1) % PolyN) + 1
                   u == IF i < p.L THEN s1[i + 1][j] ELSE s2[i - p.L + 1][j]
                   c == (u + ((Q - 1) \div 2)) % Q
               IN  2 * (c - ((Q - 1) \div 2))], PolyN * (p.K + p.L))

\* fvecRound: Math.round, negatives lifted by Q
RoundHalf(h) == LET u == (h + 1) \div 2 IN IF u < 0 THEN u + Q ELSE u
fvecRound(p, v) ==
    [z |-> TupleTo([i \in 1..p.L |->
                      Poly([j \in Idx |-> RoundHalf(v[(i - 1) * PolyN + j])])], p.L),
     e |-> TupleTo([i \in 1..p.K |->
                      Poly([j \in Idx |-> RoundHalf(v[(p.L + i - 1) * PolyN + j])])], p.K)]

(*************************** signing internals ****************************)
\* getMessage of utils.ts: 0 || len(ctx) || ctx || msg
getMessage(msg, ctx) == <<0, Len(ctx)>> \o ctx \o msg

\* #recoverShare.  perm is filled as the loop fills the Uint8Array (a write
\* past its end is dropped); sharing[currenti] is undefined past the table.
RECURSIVE PermStep(_, _, _, _)
PermStep(N_, act, j, st) ==
    \* st = [perm, i1, i2, cur, id]
    IF j >= N_ THEN st
    ELSE LET active == Bit(act, j) = 1
             at == IF active THEN st.i1 ELSE st.i2
         IN  PermStep(N_, act, j + 1,
                      [perm |-> IF at < N_ THEN [st.perm EXCEPT ![at] = j] ELSE st.perm,
                       i1 |-> IF active THEN st.i1 + 1 ELSE st.i1,
                       i2 |-> IF active THEN st.i2 ELSE st.i2 + 1,
                       cur |-> IF j = st.id THEN st.i1 ELSE st.cur,
                       id |-> st.id])
\* a translation that leaves the masks of the reference pattern as they are
TranslateNothing(N_, perm, u) == u
\* distinct target bits, so the sum is the bitwise OR of the code
Translate(N_, perm, u) ==
    SumInt(TupleTo([i \in 1..N_ |-> IF Bit(u, i - 1) = 1 THEN 2 ^ perm[i - 1] ELSE 0], N_))
\* the sum of the shares of the masks us
SumShares(p, share, us) ==
    [err |-> "",
     s1Hat |-> VecSum(TupleTo([x \in 1..Len(us) |-> share.shares[us[x]].s1Hat], Len(us)), p.L),
     s2Hat |-> VecSum(TupleTo([x \in 1..Len(us) |-> share.shares[us[x]].s2Hat], Len(us)), p.K)]
\* the masks u_ that the loop `for (const u of sharing[currenti])` looks up
\* for the party id under the active set act
recoverMasks(T, N_, id, act) ==
    Let(<<getSharingPattern(T, N_),
          PermStep(N_, act, 0, [perm |-> [i \in 0..(N_ - 1) |-> 0], i1 |-> 0, i2 |-> T,
                                cur |-> 0, id |-> id])>>, LAMBDA h :
        IF h[2].cur + 1 \notin DOMAIN h[1] THEN [err |-> "TypeError"]
        ELSE [err |-> "",
              us |-> TupleTo([x \in 1..Len(h[1][h[2].cur + 1]) |->
                                Translate(N_, h[2].perm, h[1][h[2].cur + 1][x])],
                             Len(h[1][h[2].cur + 1]))])
recoverShare(p, T, N_, share, act) ==
    IF T = N_
    THEN IF DOMAIN share.shares = {} THEN [err |-> "No shares available"]
         ELSE LET b0 == CHOOSE b \in DOMAIN share.shares : \A c \in DOMAIN share.shares : b <= c
              IN  [err |-> "", s1Hat |-> share.shares[b0].s1Hat,
                   s2Hat |-> share.shares[b0].s2Hat]
    ELSE IF getSharingPattern(T, N_) = << >> THEN [err |-> "No sharing pattern"]
    ELSE Let(recoverMasks(T, N_, share.id, act), LAMBDA m :
         IF m.err # "" THEN m
         ELSE IF \E x \in 1..Len(m.us) : m.us[x] \notin DOMAIN share.shares
         THEN [err |-> "Missing share for bitmask"]
         ELSE SumShares(p, share, m.us))

\* #genCommitment: K_iter commitments w = A*y + e and the hyperball states
CommitmentOf(p, A, stw) ==
    Let(fvecRound(p, stw.v), LAMBDA ye :
    Let(VecNTT(ye.z), LAMBDA yHat :
    Let(MatVec(p, A, yHat), LAMBDA Ay : VecAdd(Ay, ye.e))))
genCommitment(p, params, share, rhop, nonce) ==
    Let(ExpandA(p, share.rho), LAMBDA A :
    Let(TupleTo([it \in 1..params.K_iter |->
                   sampleHyperball(p, params.rPrime, params.nu, rhop,
                                   nonce * params.K_iter + (it - 1))], params.K_iter),
        LAMBDA stws :
        [ws |-> TupleTo([it \in 1..params.K_iter |-> CommitmentOf(p, A, stws[it])],
                        params.K_iter),
         stws |-> stws]))

\* #aggregateCommitments / #aggregateResponses: per iteration, the sum over
\* the parties of their vectors of dim polynomials
aggregate(all, K_iter, dim) ==
    TupleTo([it \in 1..K_iter |->
               VecSum(TupleTo([pi \in 1..Len(all) |-> all[pi][it]], Len(all)), dim)], K_iter)
aggregateCommitments(p, params, allWs) == aggregate(allWs, params.K_iter, p.K)
aggregateResponses(p, params, allZs) == aggregate(allZs, params.K_iter, p.L)

\* c_tilde = H(mu || W1Vec.encode(w1))
ChallengeHash(p, mu, w1) == shake256(mu \o Flatten(W1VecEncode(p, w1)), p.C_TILDE_BYTES)
HighBitsVec(p, w) ==
    TupleTo([j \in 1..p.K |-> Poly([c \in Idx |-> HighBits(p, w[j][c])])], p.K)
\* c * v for every polynomial of the NTT-domain vector v
ScaleVec(cHat, vHat) ==
    TupleTo([j \in 1..Len(vHat) |-> NTTdecode(MultiplyNTTs(cHat, vHat[j]))], Len(vHat))

\* #computeResponses: the thrown message, or the K_iter responses
ResponseOf(p, params, rec, mu, wfinal, stw) ==
    Let(NTTencode(SampleInBall(p, ChallengeHash(p, mu, HighBitsVec(p, wfinal)))), LAMBDA cHat :
    Let(fvecAdd(fvecFrom(p, ScaleVec(cHat, rec.s1Hat), ScaleVec(cHat, rec.s2Hat)), stw.v),
        LAMBDA zf :
        IF fvecExcess(p, zf, stw.sq, params.r, params.rPrime, params.nu)
        THEN ZeroVec(p.L) ELSE fvecRound(p, zf).z))
computeResponses(p, params, share, act, mu, wfinals, stws) ==
    Let(recoverShare(p, params.T, params.N, share, act), LAMBDA rec :
        IF rec.err # "" THEN [err |-> rec.err]
        ELSE [err |-> "",
              zs |-> TupleTo([it \in 1..params.K_iter |->
                                ResponseOf(p, params, rec, mu, wfinals[it], stws[it])],
                             params.K_iter)])

\* a #recoverShare that returns, when T = N, the arrays of the share itself
recoveredViewsShared(params) == IF params.T = params.N THEN {"s1Hat", "s2Hat"} ELSE {}
\* the fields of the stored SecretShare of which the arrays returned by
\* #recoverShare are views: none, as the T = N path returns slice() copies
\* and the other path fills arrays of its own
recoveredViews(params) == {}
\* the key share after #computeResponses has run cleanBytes(s1Hat, s2Hat) on
\* the recovered arrays
shareAfterResponses(params, share) ==
    [share EXCEPT !.shares =
        [b \in DOMAIN @ |->
           [f \in DOMAIN @[b] |->
              IF f \in recoveredViews(params)
              THEN TupleTo([j \in 1..Len(@[b][f]) |-> Filled0(@[b][f][j])], Len(@[b][f]))
              ELSE @[b][f]]]]

(****************************** signatures ********************************)
\* sigCoder: [c_tilde, z (ZCoder per polynomial), h (hintCoder)]
sigEncode(p, cTilde, z, h) ==
    [cTilde |-> cTilde,
     z |-> TupleTo([j \in 1..p.L |-> ZEncode(p, z[j])], p.L),
     h |-> hintEncode(p, h)]
sigDecode(p, sig) ==
    [cTilde |-> sig.cTilde,
     z |-> TupleTo([j \in 1..p.L |-> ZDecode(p, sig.z[j])], p.L),
     h |-> hintDecode(p, sig.h)]

\* w' = Az - c * t1 * 2^d, as #combine and verify both compute it
wApproxVec(p, A, t1, cHat, zNtt) ==
    Let(<<TupleTo([i \in 1..p.K |-> RowTimes(p, A, i, zNtt)], p.K),
          TupleTo([i \in 1..p.K |-> MultiplyNTTs(NTTencode(polyShiftl(t1[i])), cHat)], p.K)>>,
        LAMBDA u : TupleTo([i \in 1..p.K |-> NTTdecode(polySub(u[1][i], u[2][i]))], p.K))
\* mod(a - b), coefficient by coefficient
VecMinus(a, b) ==
    TupleTo([j \in 1..Len(a) |-> Poly([c \in Idx |-> mod(a[j][c] - b[j][c])])], Len(a))

\* One iteration of the loop of #combine: "continue", or the signature.
combineIter(p, A, t1, mu, wfinal, z) ==
    IF \E j \in 1..p.L : polyChknorm(z[j], p.GAMMA1 - BETA(p)) THEN [ok |-> FALSE]
    ELSE
    Let(ChallengeHash(p, mu, HighBitsVec(p, wfinal)), LAMBDA cTilde :
    Let(<<NTTencode(SampleInBall(p, cTilde)), VecNTT(z)>>, LAMBDA h :
    Let(wApproxVec(p, A, t1, h[1], h[2]), LAMBDA wApx :
    Let(VecMinus(wApx, wfinal), LAMBDA f :
    IF \E j \in 1..p.K : polyChknorm(f[j], p.GAMMA2) THEN [ok |-> FALSE]
    ELSE
    Let(TupleTo([j \in 1..p.K |->
                   polyMakeHint(p, Poly([c \in Idx |-> mod(LowBits(p, wfinal[j][c]) + f[j][c])]),
                                Poly([c \in Idx |-> HighBits(p, wfinal[j][c])]))], p.K),
        LAMBDA hints :
    IF SumInt(TupleTo([j \in 1..p.K |-> hints[j].cnt], p.K)) > p.OMEGA THEN [ok |-> FALSE]
    ELSE [ok |-> TRUE, iter |-> 0,
          sig |-> sigEncode(p, cTilde, z, TupleTo([j \in 1..p.K |-> hints[j].v], p.K))])))))

\* the last index of rs whose entry is ok, or 0
LastOk(rs) ==
    IF \E i \in 1..Len(rs) : rs[i].ok
    THEN CHOOSE i \in 1..Len(rs) : rs[i].ok /\ \A x \in (i + 1)..Len(rs) : ~rs[x].ok
    ELSE 0
\* the first index of rs whose entry is ok, or 0
FirstOk(rs) ==
    IF \E i \in 1..Len(rs) : rs[i].ok
    THEN CHOOSE i \in 1..Len(rs) : rs[i].ok /\ \A x \in 1..(i - 1) : ~rs[x].ok
    ELSE 0
\* #combine: the signature of the first iteration that passes, or null
combineCore(p, publicKey, mu, wfinals, zfinals) ==
    Let(ExpandA(p, publicKey.rho), LAMBDA A :
    Let(TupleTo([it \in 1..Len(wfinals) |->
                   combineIter(p, A, publicDecode(publicKey).t1, mu, wfinals[it], zfinals[it])],
                Len(wfinals)), LAMBDA rs :
        IF FirstOk(rs) = 0 THEN [ok |-> FALSE]
        ELSE [rs[FirstOk(rs)] EXCEPT !.iter = FirstOk(rs)]))

\* an internal.verify without its polyChknorm(z[i], GAMMA1 - BETA) tests
internalVerifyAnyNorm(p, sig, msg, publicKey) ==
    Let(publicDecode(publicKey), LAMBDA pk :
    Let(sigDecode(p, sig), LAMBDA d :
    IF ~d.h.ok THEN FALSE
    ELSE
    Let(<<ExpandA(p, pk.rho), NTTencode(SampleInBall(p, d.cTilde)), VecNTT(d.z)>>, LAMBDA h :
    Let(wApproxVec(p, h[1], pk.t1, h[2], h[3]), LAMBDA wApx :
    Let(ChallengeHash(p, shake256(shake256(publicBytes(publicKey), TR_BYTES) \o msg, CRH_BYTES),
                      TupleTo([i \in 1..p.K |-> polyUseHint(p, wApx[i], d.h.h[i])], p.K)),
        LAMBDA c2 :
    IF \E i \in 1..p.K : SumInt(d.h.h[i]) > p.OMEGA THEN FALSE
    ELSE d.cTilde = c2)))))
\* internal.verify of ml-dsa.ts (msg is already getMessage(msg, ctx))
internalVerify(p, sig, msg, publicKey) ==
    Let(publicDecode(publicKey), LAMBDA pk :
    Let(sigDecode(p, sig), LAMBDA d :
    IF ~d.h.ok THEN FALSE
    ELSE IF \E i \in 1..p.L : polyChknorm(d.z[i], p.GAMMA1 - BETA(p)) THEN FALSE
    ELSE
    Let(<<ExpandA(p, pk.rho), NTTencode(SampleInBall(p, d.cTilde)), VecNTT(d.z)>>, LAMBDA h :
    Let(wApproxVec(p, h[1], pk.t1, h[2], h[3]), LAMBDA wApx :
    Let(ChallengeHash(p, shake256(shake256(publicBytes(publicKey), TR_BYTES) \o msg, CRH_BYTES),
                      TupleTo([i \in 1..p.K |-> polyUseHint(p, wApx[i], d.h.h[i])], p.K)),
        LAMBDA c2 :
    IF \E i \in 1..p.K : SumInt(d.h.h[i]) > p.OMEGA THEN FALSE
    ELSE d.cTilde = c2)))))
verify(p, sig, msg, publicKey, ctx) == internalVerify(p, sig, getMessage(msg, ctx), publicKey)

(************************* ThresholdMLDSA.sign ****************************)
ATTEMPTS == 500
\* randomBytes: the k-th draw from the entropy the environment supplies
randomBytes(entropy, k) == <<Xof(<<entropy>>, k)>>

\* the duplicate-id loop of sign and round2 over the ids: act, or -1 for
\* the throw
RECURSIVE ActiveMask(_, _, _)
ActiveMask(ids, k, act) ==
    IF k > Len(ids) \/ act = -1 THEN act
    ELSE ActiveMask(ids, k + 1, IF Bit(act, ids[k]) = 1 THEN -1 ELSE act + 2 ^ ids[k])

\* the first thrown message of the responses, or "" when none threw
FirstErr(resps) ==
    IF \E pi \in 1..Len(resps) : resps[pi].err # ""
    THEN resps[CHOOSE pi \in 1..Len(resps) :
                 resps[pi].err # "" /\ \A x \in 1..(pi - 1) : resps[x].err = ""].err
    ELSE ""

(************************ specification SpecSign **************************)
\* create -> keygen -> sign, over every supported (level, T, N).  sign is
\* followed through its rejection loop one pass at a time: SignStart is the
\* code before the loop, SignPass one pass of the loop (with the throw that
\* follows the last one), and nothing else is enabled in between.  The
\* variables coms, wfin and rsps hold the locals allWs/allStws, wfinals and
\* allZs of the pass.
Seeds == {1, 2}
Inputs == {[msg |-> << >>, ctx |-> << >>], [msg |-> <<7, 9>>, ctx |-> <<3>>]}
Entropies == {1, 2}
\* the entropies of sign: with 11, level 44 and T = N = 3 every pass is rejected
SignEntropies == Entropies \cup {11}
Parties(N_) == 0..(N_ - 1)
Prm == PARAMS(cfg.level)
Passes == Min(ATTEMPTS, MaxAttempts)

\* the list of the ids in S, in ascending order
RECURSIVE Ascending(_)
Ascending(S) ==
    IF S = {} THEN << >>
    ELSE LET m == CHOOSE x \in S : \A y \in S : x <= y IN <<m>> \o Ascending(S \ {m})
Reverse(q) == [i \in 1..Len(q) |-> q[Len(q) + 1 - i]]
\* the lists of share ids handed to sign: any T parties in either order, a
\* list that is too short, a list that names one party T times, and a list
\* of T parties followed by the first of them once more
ShareLists(params) ==
    UNION {{Ascending(S), Reverse(Ascending(S))} :
             S \in {X \in SUBSET Parties(params.N) : Cardinality(X) = params.T}}
      \cup {<<0>>, [i \in 1..params.T |-> 0],
            [i \in 1..(params.T + 1) |-> IF i <= params.T THEN i - 1 ELSE 0]}
\* the ids of the first T shares handed to sign
ActiveIds(ks, ids, T) ==
    TupleTo([i \in 1..Min(Len(ids), T) |-> ks.shares[ids[i]].id], Min(Len(ids), T))

Init ==
    /\ pc = "start" /\ cfg = 0 /\ keys = 0 /\ sess = 0
    /\ coms = << >> /\ wfin = << >> /\ rsps = << >> /\ st2 = << >> /\ out = 0

Create ==
    /\ pc = "start"
    /\ \E level \in Levels, N_ \in 2..MAX_PARTIES :
         \E T \in 2..N_ :
            /\ cfg' = [level |-> level, params |-> cappedParams(create(level, T, N_).params)]
            /\ cfg'.params.err = ""
    /\ pc' = "created"
    /\ UNCHANGED <<keys, sess, coms, wfin, rsps, st2, out>>

Keygen ==
    /\ pc = "created"
    /\ \E seed \in Seeds :
         keys' = keygen(cfg.level, cfg.params.T, cfg.params.N, seed)
    /\ pc' = "keyed"
    /\ UNCHANGED <<cfg, sess, coms, wfin, rsps, st2, out>>

\* the checks of sign on its list of shares, before the loop
signCheck(ks, ids, T) ==
    IF Len(ids) < T THEN "Need at least T shares"
    ELSE IF ActiveMask(ActiveIds(ks, ids, T), 1, 0) = -1 THEN "Duplicate share ID"
    ELSE ""
\* const rhops = activeShares.map(() => randomBytes(64)): one new draw for
\* each active party, in every pass
rhopsOf(entropy, attempt, T) ==
    TupleTo([pi \in 1..T |-> randomBytes(entropy, attempt * T + pi - 1)], T)
\* a loop of sign that gives up at the first pass #combine rejects
passOfOnce(r, n) ==
    IF r.ok THEN [done |-> TRUE, err |-> "", sig |-> r.sig, attempts |-> n]
    ELSE [done |-> TRUE, sig |-> << >>, attempts |-> n,
          err |-> "Failed to produce valid threshold signature after 500 attempts"]
\* how a pass of the loop of sign ends: r is what #combine returned and n
\* the number of passes made so far
passOf(r, n) ==
    IF r.ok THEN [done |-> TRUE, err |-> "", sig |-> r.sig, attempts |-> n]
    ELSE IF n < Passes THEN [done |-> FALSE, err |-> "", sig |-> << >>, attempts |-> n]
    ELSE [done |-> TRUE, sig |-> << >>, attempts |-> n,
          err |-> "Failed to produce valid threshold signature after 500 attempts"]

\* for (const stw of stws) stw.fill(0)
stwsFilled0(stws) ==
    TupleTo([it \in 1..Len(stws) |-> [stws[it] EXCEPT !.v = Filled0(@)]], Len(stws))
\* the buffers a pass of the loop of sign created, as the pass leaves them:
\* #computeResponses has cleaned cs1, cs2 and the recovered s1Hat, s2Hat;
\* allStws is wiped by the pass that returns the signature only
leftByPass(p, allStws, accepted) ==
    [allStws |-> IF accepted
                 THEN TupleTo([pi \in 1..Len(allStws) |-> stwsFilled0(allStws[pi])],
                              Len(allStws))
                 ELSE allStws,
     s1Hat |-> ZeroVec(p.L), s2Hat |-> ZeroVec(p.K),
     cs1 |-> ZeroVec(p.L), cs2 |-> ZeroVec(p.K)]

\* sign(msg, publicKey, shares, {context}), up to its rejection loop
SignStart ==
    /\ pc = "keyed"
    /\ \E inp \in Inputs, entropy \in SignEntropies, ids \in ShareLists(cfg.params) :
         sess' = [msg |-> inp.msg, ctx |-> inp.ctx, ids |-> ids, entropy |-> entropy,
                  attempt |-> 0, rhops |-> << >>,
                  err |-> signCheck(keys, ids, cfg.params.T),
                  act |-> ActiveMask(ActiveIds(keys, ids, cfg.params.T), 1, 0),
                  mu |-> shake256(keys.shares[ids[1]].tr \o getMessage(inp.msg, inp.ctx),
                                  CRH_BYTES)]
    /\ out' = IF sess'.err # ""
              THEN [done |-> TRUE, err |-> sess'.err, sig |-> << >>, attempts |-> 0]
              ELSE [done |-> FALSE, err |-> "", sig |-> << >>, attempts |-> 0]
    /\ pc' = IF out'.done THEN "signed" ELSE "signing"
    /\ UNCHANGED <<cfg, keys, coms, wfin, rsps, st2>>

\* one pass of the rejection loop of sign; st2 lists, pass by pass, the
\* buffers the passes created, as they were left
SignPass ==
    /\ pc = "signing"
    /\ sess.attempt < Passes
    /\ coms' = TupleTo([pi \in 1..cfg.params.T |->
                  genCommitment(Prm, cfg.params, keys.shares[sess.ids[pi]],
                                rhopsOf(sess.entropy, sess.attempt, cfg.params.T)[pi],
                                sess.attempt)], cfg.params.T)
    /\ wfin' = aggregateCommitments(Prm, cfg.params,
                  TupleTo([pi \in 1..cfg.params.T |-> coms'[pi].ws], cfg.params.T))
    /\ rsps' = TupleTo([pi \in 1..cfg.params.T |->
                  computeResponses(Prm, cfg.params, keys.shares[sess.ids[pi]], sess.act,
                                   sess.mu, wfin', coms'[pi].stws)], cfg.params.T)
    /\ out' = IF FirstErr(rsps') # ""
              THEN [done |-> TRUE, err |-> FirstErr(rsps'), sig |-> << >>,
                    attempts |-> sess.attempt + 1]
              ELSE Let(aggregateResponses(Prm, cfg.params,
                          TupleTo([pi \in 1..cfg.params.T |-> rsps'[pi].zs], cfg.params.T)),
                       LAMBDA zfinals :
                   Let(combineCore(Prm, keys.publicKey, sess.mu, wfin', zfinals),
                       LAMBDA r : passOf(r, sess.attempt + 1)))
    /\ st2' = Append(st2, leftByPass(Prm,
                              TupleTo([pi \in 1..cfg.params.T |-> coms'[pi].stws], cfg.params.T),
                              out'.done /\ out'.err = ""))
    /\ sess' = [sess EXCEPT !.attempt = @ + 1,
                            !.rhops = rhopsOf(sess.entropy, sess.attempt, cfg.params.T),
                            !.mu = IF out'.done /\ FirstErr(rsps') = "" THEN Filled0(@) ELSE @]
    /\ keys' = IF FirstErr(rsps') # "" THEN keys
               ELSE [keys EXCEPT !.shares =
                       [i \in DOMAIN @ |->
                          IF \E pi \in 1..cfg.params.T : sess.ids[pi] = i
                          THEN shareAfterResponses(cfg.params, @[i]) ELSE @[i]]]
    /\ pc' = IF out'.done THEN "signed" ELSE "signing"
    /\ UNCHANGED cfg

NextSign == Create \/ Keygen \/ SignStart \/ SignPass
SpecSign == Init /\ [][NextSign]_vars

\* C1: whenever ThresholdMLDSA.sign returns a signature (for any supported
\* (level, T, N), any key set of keygen, any T shares with distinct ids, any
\* message and context), the standard ML-DSA verify accepts that signature
\* for the public key, the message and the context.
SignReturnsValid ==
    (pc = "signed" /\ out.err = "")
        => verify(Prm, out.sig, sess.msg, keys.publicKey, sess.ctx)
SignReturned == pc = "signed" /\ out.err = "" /\ cfg.params.T < cfg.params.N

(********************* distributed signing protocol ***********************)
\* A packed buffer is kept as its 23-bit groups, one per coefficient (the
\* code regroups them into bytes); POLY_Q_SIZE counts them per polynomial.
POLY_Q_SIZE == PolyN
packPolys(polys, dim, K_iter) ==
    TupleTo([x \in 1..(K_iter * dim * POLY_Q_SIZE) |->
               polys[((x - 1) \div (dim * POLY_Q_SIZE)) + 1]
                    [(((x - 1) \div POLY_Q_SIZE) % dim) + 1]
                    [((x - 1) % POLY_Q_SIZE) + 1] % (2 ^ 23)], K_iter * dim * POLY_Q_SIZE)
\* unpackPolys: the thrown message, or the K_iter vectors of dim polynomials
unpackPolys(buf, dim, K_iter) ==
    IF Len(buf) # K_iter * dim * POLY_Q_SIZE THEN [err |-> "Invalid buffer length"]
    ELSE IF \E x \in 1..Len(buf) : buf[x] >= Q THEN [err |-> "Invalid polynomial coefficient"]
    ELSE [err |-> "",
          polys |-> TupleTo([it \in 1..K_iter |->
                       TupleTo([j \in 1..dim |->
                          Poly([c \in Idx |-> buf[((it - 1) * dim + (j - 1)) * POLY_Q_SIZE + c]])],
                          dim)], K_iter)]
\* commitments.map(unpackPolys): every result, in order
unpackAll(bufs, dim, K_iter) ==
    TupleTo([i \in 1..Len(bufs) |-> unpackPolys(bufs[i], dim, K_iter)], Len(bufs))
PolysOf(un) == TupleTo([i \in 1..Len(un) |-> un[i].polys], Len(un))

(********************* the packing, byte by byte **************************)
\* polyPackW and polyUnpackW as written, on bytes and with the 32-bit
\* operators of JavaScript, for polynomials of PackN coefficients (a multiple
\* of 8, so that a polynomial fills PackBytes whole bytes as the 256 of the
\* code fill 736).  Every result carries max, the largest value of v a
\* step of the bit arithmetic left.
PackBlocks == 1
PackN == 8 * PackBlocks
PackBytes == (PackN * 23) \div 8
\* The 32-bit integers of JavaScript: MinInt32..MaxInt32.  A step whose
\* exact result would be 2^31 or more sets the flag over of the result.
MaxInt32 == 2147483647
MinInt32 == -MaxInt32 - 1
\* bit i (0..31) of the two's complement of x
Bit32(x, i) ==
    IF i = 31 THEN (IF x < 0 THEN 1 ELSE 0)
    ELSE IF x < 0 THEN Bit((x + MaxInt32) + 1, i) ELSE Bit(x, i)
FromBits32(f) ==
    SumInt([i \in 1..31 |-> f[i - 1] * 2 ^ (i - 1)]) + (IF f[31] = 1 THEN MinInt32 ELSE 0)
\* a & b, a | b
And32(a, b) == FromBits32([i \in 0..31 |-> Bit32(a, i) * Bit32(b, i)])
Or32(a, b) ==
    FromBits32([i \in 0..31 |-> IF Bit32(a, i) = 1 \/ Bit32(b, i) = 1 THEN 1 ELSE 0])
\* a << j for a >= 0: the low 32 bits of a * 2^j, read as signed
Shl32(a, j) ==
    IF j = 0 THEN a
    ELSE (a % (2 ^ (31 - j))) * 2 ^ j
           + (IF (a \div (2 ^ (31 - j))) % 2 = 1 THEN MinInt32 ELSE 0)
ShlOver(a, j) == j > 0 /\ a >= 2 ^ (31 - j)
\* a >>> n for 0 < n < 32
Shr32(a, n) ==
    IF a >= 0 THEN a \div (2 ^ n) ELSE (((a + MaxInt32) + 1) \div (2 ^ n)) + 2 ^ (31 - n)
\* a + b of two numbers (not cut to 32 bits), kept within MaxInt32
PlusOver(a, b) == b > 0 /\ a > MaxInt32 - b
Plus(a, b) == IF PlusOver(a, b) THEN MaxInt32 ELSE a + b
Larger(a, b) == IF a > b THEN a ELSE b

\* while (j >= 8) { buf[offset + k] = v & 0xff; v >>>= 8; j -= 8; k++ }
RECURSIVE packFlush(_)
packFlush(st) ==
    IF st.j < 8 THEN st
    ELSE packFlush([st EXCEPT !.v = Shr32(@, 8), !.j = @ - 8,
                              !.bytes = Append(@, And32(st.v, 255))])
\* the for loop of polyPackW from coefficient i on
RECURSIVE packFrom(_, _, _)
packFrom(poly, i, st) ==
    IF i > Len(poly) THEN st
    ELSE Let(And32(poly[i], 8388607), LAMBDA low :
         Let(Or32(st.v, Shl32(low, st.j)), LAMBDA v :
             packFrom(poly, i + 1,
                      packFlush([v |-> v, j |-> st.j + 23, bytes |-> st.bytes,
                                 max |-> Larger(st.max, Abs(v)),
                                 over |-> st.over \/ ShlOver(low, st.j) \/ v < 0]))))
polyPackW(poly) ==
    packFrom(poly, 1, [v |-> 0, j |-> 0, bytes |-> << >>, max |-> 0, over |-> FALSE])

\* while (j < 23) { v = v + ((buf[offset + k] & 0xff) << j); j += 8; k++ }
RECURSIVE unpackFill(_, _)
unpackFill(buf, st) ==
    IF st.j >= 23 THEN st
    ELSE Let(And32(buf[st.k], 255), LAMBDA byte :
         Let(Shl32(byte, st.j), LAMBDA sh :
             unpackFill(buf, [st EXCEPT !.v = Plus(@, sh), !.j = @ + 8, !.k = @ + 1,
                                        !.max = Larger(@, Abs(Plus(st.v, sh))),
                                        !.over = @ \/ ShlOver(byte, st.j) \/ sh < 0
                                                   \/ PlusOver(st.v, sh)])))
\* a polyUnpackW that takes every 23-bit field as it comes
RECURSIVE unpackFromAny(_, _, _)
unpackFromAny(buf, i, st) ==
    IF i > PackN THEN st
    ELSE Let(unpackFill(buf, st), LAMBDA f :
         Let(And32(f.v, 2 ^ 23 - 1), LAMBDA coeff :
             unpackFromAny(buf, i + 1, [f EXCEPT !.p = Append(@, coeff),
                                                 !.v = Shr32(@, 23), !.j = @ - 23])))
polyUnpackWAny(buf, offset) ==
    unpackFromAny(buf, 1, [err |-> "", p |-> << >>, v |-> 0, j |-> 0, k |-> offset + 1,
                           max |-> 0, over |-> FALSE])
\* the for loop of polyUnpackW from coefficient i on, with its throw
RECURSIVE unpackFrom(_, _, _)
unpackFrom(buf, i, st) ==
    IF i > PackN THEN st
    ELSE Let(unpackFill(buf, st), LAMBDA f :
         Let(And32(f.v, 2 ^ 23 - 1), LAMBDA coeff :
             IF coeff >= Q THEN [f EXCEPT !.err = "Invalid polynomial coefficient"]
             ELSE unpackFrom(buf, i + 1, [f EXCEPT !.p = Append(@, coeff),
                                                   !.v = Shr32(@, 23), !.j = @ - 23])))
polyUnpackW(buf, offset) ==
    unpackFrom(buf, 1, [err |-> "", p |-> << >>, v |-> 0, j |-> 0, k |-> offset + 1,
                        max |-> 0, over |-> FALSE])

\* packPolys and unpackPolys over these: K_iter vectors of dim polynomials
RECURSIVE MaxOf(_)
MaxOf(q) == IF q = << >> THEN 0 ELSE Larger(q[1], MaxOf(Tail(q)))
packPolysBytes(polys, dim, K_iter) ==
    Let(TupleTo([x \in 1..(K_iter * dim) |->
                   polyPackW(polys[((x - 1) \div dim) + 1][((x - 1) % dim) + 1])],
                K_iter * dim), LAMBDA packed :
        [buf |-> Flatten(TupleTo([x \in 1..Len(packed) |-> packed[x].bytes], Len(packed))),
         max |-> MaxOf(TupleTo([x \in 1..Len(packed) |-> packed[x].max], Len(packed))),
         over |-> \E x \in 1..Len(packed) : packed[x].over])
unpackPolysBytes(buf, dim, K_iter) ==
    IF Len(buf) # K_iter * dim * PackBytes
    THEN [err |-> "Invalid buffer length", max |-> 0, over |-> FALSE]
    ELSE Let(TupleTo([x \in 1..(K_iter * dim) |-> polyUnpackW(buf, (x - 1) * PackBytes)],
                     K_iter * dim), LAMBDA un :
         Let([max |-> MaxOf(TupleTo([x \in 1..Len(un) |-> un[x].max], Len(un))),
              over |-> \E x \in 1..Len(un) : un[x].over], LAMBDA m :
         IF \E x \in 1..Len(un) : un[x].err # ""
         THEN [err |-> "Invalid polynomial coefficient", max |-> m.max, over |-> m.over]
         ELSE [err |-> "", max |-> m.max, over |-> m.over,
               polys |-> TupleTo([it \in 1..K_iter |->
                            TupleTo([j \in 1..dim |-> un[(it - 1) * dim + j].p], dim)],
                            K_iter)]))

\* #hashCommitment: SHAKE256(tr || partyId || commitment), 32 bytes
hashCommitment(tr, partyId, commitment) ==
    shake256(tr \o <<partyId % 256>> \o commitment, 32)

\* round1(share, {nonce, rhop})
round1(p, params, share, rhop, nonce) ==
    Let(genCommitment(p, params, share, rhop, nonce), LAMBDA g :
    Let(packPolys(g.ws, p.K, params.K_iter), LAMBDA c :
        [commitmentHash |-> hashCommitment(share.tr, share.id, c),
         state |-> [stws |-> g.stws, commitment |-> c, destroyed |-> FALSE]]))

\* the getters of Round1State: the thrown message, or the field
get_stws(state) ==
    IF state.destroyed THEN [err |-> "Round1State has been destroyed"]
    ELSE [err |-> "", value |-> state.stws]
get_commitment(state) ==
    IF state.destroyed THEN [err |-> "Round1State has been destroyed"]
    ELSE [err |-> "", value |-> state.commitment]

\* a destroy() that wipes nothing and leaves the state usable
destroy1Nothing(state) == state
\* Round1State.destroy()
destroy1(state) ==
    IF state.destroyed THEN state
    ELSE [state EXCEPT !.destroyed = TRUE,
                       !.stws = TupleTo([it \in 1..Len(state.stws) |->
                                   [state.stws[it] EXCEPT
                                      !.v = TupleTo([i \in 1..Len(state.stws[it].v) |-> 0],
                                                    Len(state.stws[it].v))]],
                                   Len(state.stws))]

\* round2(share, activePartyIds, msg, round1Hashes, round1State, {context}):
\* the thrown message, or the revealed commitment and the Round2State
\* a round2 without the check of the number of hashes
round2AnyHashes(params, share, activePartyIds, msg, round1Hashes, round1State, ctx) ==
    IF Len(activePartyIds) < params.T THEN [err |-> "Need at least T parties"]
    ELSE IF ActiveMask(activePartyIds, 1, 0) = -1 THEN [err |-> "Duplicate party ID"]
    ELSE IF round1State.destroyed THEN [err |-> "Round1State has been destroyed"]
    ELSE [err |-> "",
          commitment |-> round1State.commitment,
          state |-> [hashes |-> round1Hashes,
                     mu |-> shake256(share.tr \o getMessage(msg, ctx), CRH_BYTES),
                     act |-> ActiveMask(activePartyIds, 1, 0),
                     activePartyIds |-> activePartyIds,
                     destroyed |-> FALSE]]
round2(params, share, activePartyIds, msg, round1Hashes, round1State, ctx) ==
    IF Len(activePartyIds) < params.T THEN [err |-> "Need at least T parties"]
    ELSE IF Len(round1Hashes) # Len(activePartyIds) THEN [err |-> "Expected n hashes"]
    ELSE IF ActiveMask(activePartyIds, 1, 0) = -1 THEN [err |-> "Duplicate party ID"]
    ELSE IF round1State.destroyed THEN [err |-> "Round1State has been destroyed"]
    ELSE [err |-> "",
          commitment |-> round1State.commitment,
          state |-> [hashes |-> round1Hashes,
                     mu |-> shake256(share.tr \o getMessage(msg, ctx), CRH_BYTES),
                     act |-> ActiveMask(activePartyIds, 1, 0),
                     activePartyIds |-> activePartyIds,
                     destroyed |-> FALSE]]

\* the getters of Round2State: the thrown message, or the field
get2(state, field) ==
    IF state.destroyed THEN [err |-> "Round2State has been destroyed"]
    ELSE [err |-> "", value |-> state[field]]
get_hashes(state) == get2(state, "hashes")
get_mu(state) == get2(state, "mu")
get_act(state) == get2(state, "act")
get_activePartyIds(state) == get2(state, "activePartyIds")
\* Round2State.destroy()
destroy2(state) ==
    IF state.destroyed THEN state
    ELSE [state EXCEPT !.destroyed = TRUE, !.mu = [i \in 1..Len(state.mu) |-> 0]]

\* the comparison loop of round3 over the bytes of the expected hash (a
\* byte the stored hash lacks reads as undefined, and x ^ undefined is x)
hashDiff(expected, stored) ==
    \E j \in 1..Len(expected) :
       IF j > Len(stored) THEN expected[j] # 0 ELSE expected[j] # stored[j]
\* a check of round3 that passes every commitment
firstMismatchNone(tr, activePartyIds, commitments, hashes) == 0
\* the first position whose commitment fails the check of round3, or 0
firstMismatch(tr, activePartyIds, commitments, hashes) ==
    IF \E i \in 1..Len(commitments) :
          hashDiff(hashCommitment(tr, activePartyIds[i], commitments[i]), hashes[i])
    THEN CHOOSE i \in 1..Len(commitments) :
           /\ hashDiff(hashCommitment(tr, activePartyIds[i], commitments[i]), hashes[i])
           /\ \A x \in 1..(i - 1) :
                 ~hashDiff(hashCommitment(tr, activePartyIds[x], commitments[x]), hashes[x])
    ELSE 0

\* round3(share, commitments, round1State, round2State): the thrown message
\* (with the party it names), or the packed response.  used lists what the
\* call had read of the secrets when it ended.
threw(msg, party, used) == [err |-> msg, party |-> party, response |-> << >>, used |-> used]
round3(p, params, share, commitments, round1State, round2State) ==
    IF round2State.destroyed THEN threw("Round2State has been destroyed", -1, {})
    ELSE IF Len(commitments) # Len(round2State.activePartyIds)
    THEN threw("Expected n commitments", -1, {})
    ELSE
    Let(firstMismatch(share.tr, round2State.activePartyIds, commitments, round2State.hashes),
        LAMBDA bad :
    IF bad # 0
    THEN threw("Commitment hash mismatch for party", round2State.activePartyIds[bad], {})
    ELSE
    Let(unpackAll(commitments, p.K, params.K_iter), LAMBDA un :
    IF FirstErr(un) # "" THEN threw(FirstErr(un), -1, {})
    ELSE
    Let(aggregateCommitments(p, params, PolysOf(un)), LAMBDA wfinals :
    IF round1State.destroyed THEN threw("Round1State has been destroyed", -1, {})
    ELSE
    Let(computeResponses(p, params, share, round2State.act, round2State.mu, wfinals,
                         round1State.stws), LAMBDA r :
    IF r.err # "" THEN threw(r.err, -1, {"stws", "shares"})
    ELSE [err |-> "", party |-> -1, response |-> packPolys(r.zs, p.L, params.K_iter),
          used |-> {"stws", "shares"}]))))

\* combine(publicKey, msg, commitments, responses, {context}): the thrown
\* message, null, or the signature
combine(p, params, publicKey, msg, commitments, responses, ctx) ==
    Let(unpackAll(commitments, p.K, params.K_iter), LAMBDA unW :
    IF FirstErr(unW) # "" THEN [err |-> FirstErr(unW), isNull |-> FALSE, sig |-> << >>]
    ELSE
    Let(aggregateCommitments(p, params, PolysOf(unW)), LAMBDA wfinals :
    Let(unpackAll(responses, p.L, params.K_iter), LAMBDA unZ :
    IF FirstErr(unZ) # "" THEN [err |-> FirstErr(unZ), isNull |-> FALSE, sig |-> << >>]
    ELSE
    Let(aggregateResponses(p, params, PolysOf(unZ)), LAMBDA zfinals :
    Let(combineCore(p, publicKey,
                    shake256(shake256(publicBytes(publicKey), TR_BYTES) \o getMessage(msg, ctx),
                             CRH_BYTES), wfinals, zfinals), LAMBDA r :
        IF r.ok THEN [err |-> "", isNull |-> FALSE, sig |-> r.sig]
        ELSE [err |-> "", isNull |-> TRUE, sig |-> << >>])))))

(*********************** specification SpecRounds *************************)
\* create -> keygen -> a session of round1, round2, round3 of every active
\* party (in the order of the active list) -> combine.  What a party is
\* handed from its peers is chosen when the first party of a round is handed
\* it: the lists the peers sent, or lists changed on the way.
\* sess.hashes and sess.commitments are the lists handed to round2 and
\* round3; coms, st2 and rsps hold what round1, round2 and round3 returned.
ActiveLists(params) ==
    {[i \in 1..params.T |-> i - 1], [i \in 1..params.T |-> params.N - i],
     <<0>>, [i \in 1..params.T |-> 0]}
\* buf with its first group replaced by another value below Q
Altered(buf) == [buf EXCEPT ![1] = (@ + 1) % Q]
AlteredBack(buf) == [buf EXCEPT ![1] = (@ + Q - 1) % Q]
AlterAt(list, i) == [list EXCEPT ![i] = Altered(@)]
SentHashes == TupleTo([i \in 1..Len(coms) |-> coms[i].commitmentHash], Len(coms))
SentCommitments == TupleTo([i \in 1..Len(st2) |-> st2[i].commitment], Len(st2))
SentResponses == TupleTo([i \in 1..Len(rsps) |-> rsps[i].response], Len(rsps))
HandedHashes ==
    {SentHashes, AlterAt(SentHashes, 1), SubSeq(SentHashes, 1, Len(SentHashes) - 1),
     Append(SentHashes, SentHashes[1])}
HandedCommitments ==
    {SentCommitments, AlterAt(SentCommitments, Len(SentCommitments)),
     SubSeq(SentCommitments, 1, Len(SentCommitments) - 1)}
HandedToCombine ==
    {[tag |-> "sent", commitments |-> SentCommitments, responses |-> SentResponses],
     [tag |-> "reordered", commitments |-> Reverse(SentCommitments),
      responses |-> Reverse(SentResponses)],
     [tag |-> "commitment altered", commitments |-> AlterAt(SentCommitments, 1),
      responses |-> SentResponses],
     [tag |-> "response altered", commitments |-> SentCommitments,
      responses |-> AlterAt(SentResponses, 1)],
     [tag |-> "responses shifted", commitments |-> SentCommitments,
      responses |-> [AlterAt(SentResponses, 1) EXCEPT ![2] = AlteredBack(@)]],
     [tag |-> "response cut", commitments |-> SentCommitments,
      responses |-> [SentResponses EXCEPT ![1] = SubSeq(@, 1, Len(@) - 1)]]}

Open ==
    /\ pc = "keyed"
    /\ \E inp \in Inputs, entropy \in Entropies, ids \in ActiveLists(cfg.params) :
         sess' = [msg |-> inp.msg, ctx |-> inp.ctx, ids |-> ids, entropy |-> entropy,
                  hashes |-> << >>, commitments |-> << >>]
    /\ out' = [op |-> "open", err |-> ""]
    /\ pc' = "round1"
    /\ UNCHANGED <<cfg, keys, coms, wfin, rsps, st2>>

\* round1 of the next party of the active list
Round1 ==
    /\ pc = "round1"
    /\ coms' = Append(coms, round1(Prm, cfg.params, keys.shares[sess.ids[Len(coms) + 1]],
                                   randomBytes(sess.entropy, Len(coms)), 0))
    /\ pc' = IF Len(coms') = Len(sess.ids) THEN "round2" ELSE "round1"
    /\ UNCHANGED <<cfg, keys, sess, wfin, rsps, st2, out>>

\* round2 of the next party of the active list
Round2 ==
    /\ pc = "round2"
    /\ \E hs \in (IF st2 = << >> THEN HandedHashes ELSE {sess.hashes}) :
         sess' = [sess EXCEPT !.hashes = hs]
    /\ st2' = Append(st2, round2(cfg.params, keys.shares[sess.ids[Len(st2) + 1]], sess.ids,
                                 sess.msg, sess'.hashes, coms[Len(st2) + 1].state, sess.ctx))
    /\ out' = IF st2'[Len(st2')].err # ""
              THEN [op |-> "round2", err |-> st2'[Len(st2')].err] ELSE out
    /\ pc' = IF st2'[Len(st2')].err # "" THEN "done"
             ELSE IF Len(st2') = Len(sess.ids) THEN "round3" ELSE "round2"
    /\ UNCHANGED <<cfg, keys, coms, wfin, rsps>>

\* Round1State.destroy() of the first party, before its round2 or its
\* round3, for the first time or again; out records that it returned
Destroy1 ==
    /\ \/ pc = "round2" /\ st2 = << >>
       \/ pc = "round3" /\ rsps = << >>
    /\ coms' = [coms EXCEPT ![1].state = destroy1(@)]
    /\ out' = [op |-> "destroy1", err |-> "", again |-> coms[1].state.destroyed]
    /\ UNCHANGED <<pc, cfg, keys, sess, wfin, rsps, st2>>

\* Round2State.destroy() of the first party, before its round3, for the
\* first time or again
Destroy2 ==
    /\ pc = "round3" /\ rsps = << >>
    /\ st2' = [st2 EXCEPT ![1].state = destroy2(@)]
    /\ out' = [op |-> "destroy2", err |-> "", again |-> st2[1].state.destroyed]
    /\ UNCHANGED <<pc, cfg, keys, sess, coms, wfin, rsps>>

\* round3 of the next party of the active list
Round3 ==
    /\ pc = "round3"
    /\ \E cs \in (IF rsps = << >> THEN HandedCommitments ELSE {sess.commitments}) :
         sess' = [sess EXCEPT !.commitments = cs]
    /\ rsps' = Append(rsps, round3(Prm, cfg.params, keys.shares[sess.ids[Len(rsps) + 1]],
                                   sess'.commitments, coms[Len(rsps) + 1].state,
                                   st2[Len(rsps) + 1].state))
    /\ out' = IF rsps'[Len(rsps')].err # ""
              THEN [op |-> "round3", err |-> rsps'[Len(rsps')].err] ELSE out
    /\ pc' = IF rsps'[Len(rsps')].err # "" THEN "done"
             ELSE IF Len(rsps') = Len(sess.ids) THEN "combine" ELSE "round3"
    /\ keys' = IF "shares" \in rsps'[Len(rsps')].used /\ rsps'[Len(rsps')].err = ""
               THEN [keys EXCEPT !.shares[sess.ids[Len(rsps')]] =
                                    shareAfterResponses(cfg.params, @)]
               ELSE keys
    /\ UNCHANGED <<cfg, coms, wfin, st2>>

\* combine(publicKey, msg, commitments, responses, {context})
Combine ==
    /\ pc = "combine"
    /\ \E d \in HandedToCombine :
         out' = [op |-> "combine", handed |-> d.tag,
                 res |-> combine(Prm, cfg.params, keys.publicKey, sess.msg, d.commitments,
                                 d.responses, sess.ctx)]
    /\ pc' = "done"
    /\ UNCHANGED <<cfg, keys, sess, coms, wfin, rsps, st2>>

NextRounds ==
    \/ Create
    \/ Keygen
    \/ Open
    \/ Round1
    \/ Round2
    \/ Destroy1
    \/ Destroy2
    \/ Round3
    \/ Combine
SpecRounds == Init /\ [][NextRounds]_vars

\* C2: every non-null value that combine returns, for packed commitments
\* and responses that unpack (as sent by the parties or changed on the way),
\* is accepted by the standard ML-DSA verify for the same publicKey, msg and
\* context.
CombineReturnsValid ==
    (pc = "done" /\ out.op = "combine" /\ out.res.err = "" /\ ~out.res.isNull)
        => verify(Prm, out.res.sig, sess.msg, keys.publicKey, sess.ctx)
CombineReturnedChanged ==
    /\ pc = "done" /\ out.op = "combine" /\ out.res.err = "" /\ ~out.res.isNull
    /\ out.handed = "commitment altered"

\* C4: when round3 is handed one commitment per active party and, for some
\* position i, SHAKE256(tr || id_i || commitment_i, 32) is not the i-th hash
\* stored at round2, round3 throws 'Commitment hash mismatch for party' with
\* the id of the first such position (with a Round2State that was destroyed
\* it throws already when it reads the state), returns no response, and has
\* read neither the hyperball state of round 1 nor the secret shares.
Round3RejectsMismatch ==
    \A k \in 1..Len(rsps) :
       LET tr == keys.shares[sess.ids[k]].tr
           bad == {i \in 1..Len(sess.ids) :
                     shake256(tr \o <<sess.ids[i]>> \o sess.commitments[i], 32)
                       # st2[k].state.hashes[i]}
       IN  (pc \in {"round3", "combine", "done"}
              /\ Len(sess.commitments) = Len(sess.ids) /\ bad # {})
           => /\ IF st2[k].state.destroyed
                 THEN rsps[k].err = "Round2State has been destroyed"
                 ELSE /\ rsps[k].err = "Commitment hash mismatch for party"
                      /\ rsps[k].party = sess.ids[CHOOSE i \in bad : \A x \in bad : i <= x]
              /\ rsps[k].response = << >>
              /\ rsps[k].used = {}
Round3Rejected ==
    /\ pc = "done" /\ out.op = "round3" /\ out.err = "Commitment hash mismatch for party"
    /\ coms[1].state.destroyed

(******************* ML-DSA of ml-dsa.ts: keygen, sign, verify ************)
\* #coefFromHalfByte: the coefficient of a half byte, or false (here Q)
CoefFromHalfByte(p, n) ==
    IF p.ETA = 2 THEN (IF n < 15 THEN 2 - (n % 5) ELSE Q)
    ELSE (IF n < 9 THEN 4 - n ELSE Q)
\* RejBoundedPoly: the accepted half bytes of the stream, until the
\* polynomial is full
RECURSIVE RejBoundedStep(_, _, _, _)
RejBoundedStep(p, seed, k, r) ==
    IF Len(r) >= PolyN THEN r
    ELSE Let(CoefFromHalfByte(p, Xof(seed, k) % 16), LAMBDA d :
             RejBoundedStep(p, seed, k + 1, IF d = Q THEN r ELSE Append(r, d)))
RejBoundedPoly(p, seed) == RejBoundedStep(p, seed, 0, << >>)

\* ETACoder and T0Coder, as fields of 3 or 4 and of 13 bits
ETABits(p) == IF p.ETA = 2 THEN 3 ELSE 4
ETAEncode(p, poly) == Poly([i \in Idx |-> (p.ETA - poly[i]) % (2 ^ ETABits(p))])
ETADecode(p, f) == Poly([i \in Idx |-> p.ETA - f[i]])
T0Bits == 13
T0Encode(poly) == Poly([i \in Idx |-> ((2 ^ (D - 1)) - poly[i]) % (2 ^ T0Bits)])
T0Decode(f) == Poly([i \in Idx |-> (2 ^ (D - 1)) - f[i]])

\* secretCoder: [rho, K, tr, s1, s2, t0]
secretEncode(p, rho, K_, tr, s1, s2, t0) ==
    [rho |-> rho, K |-> K_, tr |-> tr,
     s1 |-> TupleTo([i \in 1..p.L |-> ETAEncode(p, s1[i])], p.L),
     s2 |-> TupleTo([i \in 1..p.K |-> ETAEncode(p, s2[i])], p.K),
     t0 |-> TupleTo([i \in 1..p.K |-> T0Encode(t0[i])], p.K)]
\* secretCoder.decode: the throw of ETACoder's range check, or the fields.
\* rho, K and tr are views of the key's buffer; s1, s2 and t0 are new arrays.
secretDecode(p, sk) ==
    Let([rho |-> sk.rho, K |-> sk.K, tr |-> sk.tr,
         s1 |-> TupleTo([i \in 1..p.L |-> ETADecode(p, sk.s1[i])], p.L),
         s2 |-> TupleTo([i \in 1..p.K |-> ETADecode(p, sk.s2[i])], p.K),
         t0 |-> TupleTo([i \in 1..p.K |-> T0Decode(sk.t0[i])], p.K)], LAMBDA d :
        IF \E i \in 1..p.L, c \in Idx : Abs(d.s1[i][c]) > p.ETA THEN [err |-> "malformed key s1/s3"]
        ELSE IF \E i \in 1..p.K, c \in Idx : Abs(d.s2[i][c]) > p.ETA
             THEN [err |-> "malformed key s1/s3"]
        ELSE [err |-> "", key |-> d])

\* internal.keygen(seed)
internalKeygen(p, seed) ==
    LET hseed == <<seed, p.K, p.L>>
        rho == <<Xof(hseed, 0)>>
        rhoPrime == <<Xof(hseed, 1)>>
        K_ == <<Xof(hseed, 2)>>
    IN  Let(<<TupleTo([i \in 1..p.L |->
                         RejBoundedPoly(p, rhoPrime \o <<(i - 1) % 256, ((i - 1) \div 256) % 256>>)],
                      p.L),
              TupleTo([i \in 1..p.K |->
                         RejBoundedPoly(p, rhoPrime \o <<(p.L + i - 1) % 256,
                                                         ((p.L + i - 1) \div 256) % 256>>)], p.K),
              ExpandA(p, rho)>>, LAMBDA s :
        Let(VecNTT(s[1]), LAMBDA s1Hat :
        Let(MatVec(p, s[3], s1Hat), LAMBDA As1 :
        Let(TupleTo([i \in 1..p.K |-> polyPowerRound(polyAdd(As1[i], s[2][i]))], p.K), LAMBDA t :
        Let(publicEncode(rho, TupleTo([i \in 1..p.K |-> t[i].r1], p.K)), LAMBDA publicKey :
            [publicKey |-> publicKey,
             secretKey |-> secretEncode(p, rho, K_, shake256(publicBytes(publicKey), TR_BYTES),
                                        s[1], s[2],
                                        TupleTo([i \in 1..p.K |-> t[i].r0], p.K))])))))

\* internal.sign before main_loop: the decoded key with s1, s2 and t0 in NTT
\* form, mu and rhoprime
signPrepare(p, M, secretKey, rnd) ==
    Let(secretDecode(p, secretKey), LAMBDA d :
        IF d.err # "" THEN [err |-> d.err]
        ELSE Let(shake256(d.key.tr \o M, CRH_BYTES), LAMBDA mu :
                 [err |-> "", A |-> ExpandA(p, d.key.rho),
                  s1 |-> VecNTT(d.key.s1), s2 |-> VecNTT(d.key.s2), t0 |-> VecNTT(d.key.t0),
                  mu |-> mu, rhoprime |-> shake256(d.key.K \o rnd \o mu, CRH_BYTES)]))

\* the mu of internal.sign: with externalMu the msg array itself, otherwise
\* the digest of tr and msg
muOf(tr, msg, externalMu) == IF externalMu THEN msg ELSE shake256(tr \o msg, CRH_BYTES)
\* internal.sign(msg, secretKey, {extraEntropy, externalMu}) before main_loop
internalPrepare(p, msg, secretKey, rnd, externalMu) ==
    Let(secretDecode(p, secretKey), LAMBDA d :
        IF d.err # "" THEN [err |-> d.err]
        ELSE Let(muOf(d.key.tr, msg, externalMu), LAMBDA mu :
                 [err |-> "", A |-> ExpandA(p, d.key.rho),
                  s1 |-> VecNTT(d.key.s1), s2 |-> VecNTT(d.key.s2), t0 |-> VecNTT(d.key.t0),
                  mu |-> mu, rhoprime |-> shake256(d.key.K \o rnd \o mu, CRH_BYTES)]))

\* ZCoder.decode(x256.get(kappa & 0xff, kappa >> 8)())
ExpandMask(p, rhoprime, kappa) ==
    Let(rhoprime \o <<kappa % 256, kappa \div 256>>, LAMBDA seed :
        ZDecode(p, Poly([c \in Idx |-> Xof(seed, c) % (2 ^ ZBits(p))])))

\* one pass of main_loop: "continue", or the signature
signIter(p, st, kappa) ==
    Let(TupleTo([i \in 1..p.L |-> ExpandMask(p, st.rhoprime, kappa + i - 1)], p.L), LAMBDA y :
    Let(VecNTT(y), LAMBDA z :
    Let(MatVec(p, st.A, z), LAMBDA w :
    Let(HighBitsVec(p, w), LAMBDA w1 :
    Let(ChallengeHash(p, st.mu, w1), LAMBDA cTilde :
    Let(NTTencode(SampleInBall(p, cTilde)), LAMBDA cHat :
    Let(TupleTo([i \in 1..p.L |-> polyAdd(NTTdecode(MultiplyNTTs(st.s1[i], cHat)), y[i])], p.L),
        LAMBDA cs1 :
    IF \E i \in 1..p.L : polyChknorm(cs1[i], p.GAMMA1 - BETA(p)) THEN [ok |-> FALSE]
    ELSE
    Let(TupleTo([i \in 1..p.K |->
                   Poly([c \in Idx |->
                           LowBits(p, polySub(w[i], NTTdecode(MultiplyNTTs(st.s2[i], cHat)))[c])])],
                p.K), LAMBDA r0 :
    IF \E i \in 1..p.K : polyChknorm(r0[i], p.GAMMA2 - BETA(p)) THEN [ok |-> FALSE]
    ELSE
    Let(TupleTo([i \in 1..p.K |-> NTTdecode(MultiplyNTTs(st.t0[i], cHat))], p.K), LAMBDA ct0 :
    IF \E i \in 1..p.K : polyChknorm(ct0[i], p.GAMMA2) THEN [ok |-> FALSE]
    ELSE
    Let(TupleTo([i \in 1..p.K |-> polyMakeHint(p, polyAdd(r0[i], ct0[i]), w1[i])], p.K),
        LAMBDA hints :
    IF SumInt(TupleTo([i \in 1..p.K |-> hints[i].cnt], p.K)) > p.OMEGA THEN [ok |-> FALSE]
    ELSE [ok |-> TRUE,
          sig |-> sigEncode(p, cTilde, cs1, TupleTo([i \in 1..p.K |-> hints[i].v], p.K))]
    ))))))))))

\* What internal.sign hands to cleanBytes when it returns, and the locals
\* that are views of the secret key's buffer (not copies).
signCleanedWithTr ==
    {"cTilde", "cs1", "h", "cHat", "w1", "w", "z", "y", "rhoprime", "mu", "s1", "s2", "t0", "A",
     "tr"}
signCleanedWithK ==
    {"cTilde", "cs1", "h", "cHat", "w1", "w", "z", "y", "rhoprime", "mu", "s1", "s2", "t0", "A",
     "K"}
signCleaned ==
    {"cTilde", "cs1", "h", "cHat", "w1", "w", "z", "y", "rhoprime", "mu", "s1", "s2", "t0", "A"}
secretViews == {"rho", "K", "tr"}
\* the locals of internal.sign that are the caller's msg array (not copies)
msgViews(externalMu) == IF externalMu THEN {"mu"} ELSE {}
\* the caller's msg array after cleanBytes: zero-filled if a cleaned local is it
msgAfterSign(msg, externalMu) ==
    IF msgViews(externalMu) \cap signCleaned # {} THEN Filled0(msg) ELSE msg
\* the secret key's buffer after cleanBytes: a cleaned view is zero-filled
cleanedKey(sk) ==
    [f \in DOMAIN sk |->
       IF f \in secretViews /\ f \in signCleaned THEN [i \in 1..Len(sk[f]) |-> 0] ELSE sk[f]]

(************************ specification SpecMlDsa *************************)
\* keygen, then sign and verify again and again with the same secret key.
\* sign is followed through main_loop one pass at a time, as SignPass is.
\* MaxSigns caps the number of successive signatures.
MaxSigns == 2
\* opts.extraEntropy: false (32 zero bytes), or undefined (randomBytes)
ExtraEntropy == {"false", "undefined"}
\* what randomBytes draws from: one state under which main_loop accepts its
\* first pass, and two under which some first pass is rejected
MlEntropies == {1, 627, 1292}

MlKeygen ==
    /\ pc = "start"
    /\ \E level \in Levels, seed \in Seeds :
         /\ cfg' = [level |-> level, params |-> [err |-> "", T |-> 1, N |-> 1]]
         /\ keys' = internalKeygen(PARAMS(level), seed)
    /\ sess' = [signs |-> 0]
    /\ pc' = "mlkeyed"
    /\ UNCHANGED <<coms, wfin, rsps, st2, out>>

\* sign(msg, secretKey, {context, extraEntropy}) up to main_loop
MlSignStart ==
    /\ pc \in {"mlkeyed", "mlverified"}
    /\ sess.signs < MaxSigns
    /\ \E inp \in Inputs, random \in ExtraEntropy, entropy \in MlEntropies :
         /\ random = "false" => entropy = 1
         /\ sess' = [signs |-> sess.signs, msg |-> inp.msg, ctx |-> inp.ctx, kappa |-> 0,
                     rnd |-> IF random = "false" THEN <<0>>
                             ELSE randomBytes(entropy, sess.signs)]
    /\ out' = [err |-> signPrepare(Prm, getMessage(sess'.msg, sess'.ctx), keys.secretKey,
                                   sess'.rnd).err,
               sig |-> << >>, valid |-> FALSE]
    /\ pc' = IF out'.err # "" THEN "mlsigned" ELSE "mlsigning"
    /\ UNCHANGED <<cfg, keys, coms, wfin, rsps, st2>>

\* The cap on the attempts of the baseline sign that the description of the
\* library states (500), scaled to the passes the model follows.
MlAttemptsCap == 1
\* a main_loop that is left once the cap is reached
mainLoopEndsAtCap(p, kappa) == kappa >= MlAttemptsCap * p.L
\* the condition of `main_loop: for (let kappa = 0; ; )`: there is none, the
\* loop is left by the return only
mainLoopEnds(p, kappa) == FALSE

\* one pass of main_loop, with the return that follows an accepted pass (or
\* the throw that follows the loop); the guard bounds the passes followed
MlSignPass ==
    /\ pc = "mlsigning"
    /\ sess.kappa < MaxAttempts * Prm.L
    /\ rsps' = signIter(Prm, signPrepare(Prm, getMessage(sess.msg, sess.ctx), keys.secretKey,
                                         sess.rnd), sess.kappa)
    /\ sess' = [sess EXCEPT !.kappa = @ + Prm.L,
                            !.signs = IF rsps'.ok THEN @ + 1 ELSE @]
    /\ out' = IF rsps'.ok THEN [out EXCEPT !.sig = rsps'.sig]
              ELSE IF mainLoopEnds(Prm, sess'.kappa)
              THEN [out EXCEPT !.err = "Unreachable code path reached, report this error"]
              ELSE out
    /\ keys' = IF rsps'.ok THEN [keys EXCEPT !.secretKey = cleanedKey(@)] ELSE keys
    /\ pc' = IF rsps'.ok \/ mainLoopEnds(Prm, sess'.kappa) THEN "mlsigned" ELSE "mlsigning"
    /\ UNCHANGED <<cfg, coms, wfin, st2>>

\* verify(sig, msg, publicKey, {context})
MlVerify ==
    /\ pc = "mlsigned"
    /\ out.err = ""
    /\ out' = [out EXCEPT !.valid = verify(Prm, out.sig, sess.msg, keys.publicKey, sess.ctx)]
    /\ pc' = "mlverified"
    /\ UNCHANGED <<cfg, keys, sess, coms, wfin, rsps, st2>>

\* The signatures verify is handed by someone other than sign. A holder of
\* the secret key follows main_loop with a mask y of their own choice and
\* without the test of z, and encodes what comes out: the masks chosen lie
\* on the edge of ExpandMask's range, where z = y + c * s1 leaves the bound.
CraftMasks(p) ==
    {Poly([c \in Idx |-> IF c = 1 THEN edge ELSE rest]) :
        edge \in {p.GAMMA1, 1 - p.GAMMA1}, rest \in {0, 1000, -70000}}
craftIter(p, st, mask) ==
    Let(TupleTo([i \in 1..p.L |-> mask], p.L), LAMBDA y :
    Let(VecNTT(y), LAMBDA z :
    Let(MatVec(p, st.A, z), LAMBDA w :
    Let(HighBitsVec(p, w), LAMBDA w1 :
    Let(ChallengeHash(p, st.mu, w1), LAMBDA cTilde :
    Let(NTTencode(SampleInBall(p, cTilde)), LAMBDA cHat :
    Let(TupleTo([i \in 1..p.L |-> polyAdd(NTTdecode(MultiplyNTTs(st.s1[i], cHat)), y[i])], p.L),
        LAMBDA cs1 :
    Let(TupleTo([i \in 1..p.K |->
                   Poly([c \in Idx |->
                           LowBits(p, polySub(w[i], NTTdecode(MultiplyNTTs(st.s2[i], cHat)))[c])])],
                p.K), LAMBDA r0 :
    Let(TupleTo([i \in 1..p.K |-> NTTdecode(MultiplyNTTs(st.t0[i], cHat))], p.K), LAMBDA ct0 :
    Let(TupleTo([i \in 1..p.K |-> polyMakeHint(p, polyAdd(r0[i], ct0[i]), w1[i])], p.K),
        LAMBDA hints :
    IF SumInt(TupleTo([i \in 1..p.K |-> hints[i].cnt], p.K)) > p.OMEGA THEN [ok |-> FALSE]
    ELSE [ok |-> TRUE,
          sig |-> sigEncode(p, cTilde, cs1, TupleTo([i \in 1..p.K |-> hints[i].v], p.K))]
    ))))))))))
\* the hint bytes h with one byte replaced
HintBytes(p, h) == {[h EXCEPT ![i] = v] : i \in 1..Len(h), v \in 0..p.OMEGA}
HandedSigs(p, sig, st) ==
    {sig}
    \cup {craftIter(p, st, mask).sig : mask \in {y \in CraftMasks(p) : craftIter(p, st, y).ok}}
    \cup {[sig EXCEPT !.h = b] : b \in HintBytes(p, sig.h)}

\* verify(sig, msg, publicKey, {context}) of a signature from anywhere
MlVerifyHanded ==
    /\ pc = "mlsigned"
    /\ out.err = ""
    /\ \E sig \in HandedSigs(Prm, out.sig,
                              signPrepare(Prm, getMessage(sess.msg, sess.ctx), keys.secretKey,
                                          sess.rnd)) :
         out' = [err |-> "", sig |-> sig,
                 valid |-> verify(Prm, sig, sess.msg, keys.publicKey, sess.ctx)]
    /\ pc' = "mlhanded"
    /\ UNCHANGED <<cfg, keys, sess, coms, wfin, rsps, st2>>

NextMlDsa == MlKeygen \/ MlSignStart \/ MlSignPass \/ MlVerify \/ MlVerifyHanded
SpecMlDsa == Init /\ [][NextMlDsa]_vars

\* C3: every signature that sign returns for a key pair of keygen, a
\* message and a context is accepted by verify under the public key, the
\* message and the context, however many signatures the secret key has
\* produced before.
SignVerifyRoundTrip == pc = "mlverified" => out.valid
\* a second signature of the same secret key has been verified
SecondSignatureVerified == pc = "mlverified" /\ sess.signs >= 2 /\ out.valid /\ sess.ctx # << >>

(******************* distributed key generation (DKG) *********************)
\* dkgSetup, dkgPhase1, dkgPhase2, dkgPhase2Finalize (with Phase 3),
\* dkgPhase4 and dkgFinalize of ThresholdMLDSA.  A 32-byte string (session
\* id, rho, seed) is one element of the model; a Map is a function on its
\* keys.
TagRho == <<114, 104, 111>>
TagBm == <<98, 109>>
\* H(sessionId || tag || party || payload), 32 bytes
dkgCommit(sid, tag, party, payload) == shake256(sid \o tag \o <<party>> \o payload, 32)

\* the bitmasks of the list that have bit i
HeldBy(bitmasks, i) == {bitmasks[m] : m \in {x \in 1..Len(bitmasks) : Bit(bitmasks[x], i) = 1}}
holdersOf(b, N_) == Ascending({i \in 0..(N_ - 1) : Bit(b, i) = 1})

\* a generator assignment that takes the lowest holder whatever the loads
RECURSIVE assignLowestHolder(_, _, _, _)
assignLowestHolder(bitmasks, N_, k, load) ==
    IF k > Len(bitmasks) THEN << >>
    ELSE LET hs == {i \in 0..(N_ - 1) : Bit(bitmasks[k], i) = 1}
             g == CHOOSE h \in hs : \A x \in hs : h <= x
         IN  <<g>> \o assignLowestHolder(bitmasks, N_, k + 1, load)
\* generator assignment: in enumeration order, the holder with the least
\* load so far, the lowest id among equals
RECURSIVE assignGenerators(_, _, _, _)
assignGenerators(bitmasks, N_, k, load) ==
    IF k > Len(bitmasks) THEN << >>
    ELSE LET hs == {i \in 0..(N_ - 1) : Bit(bitmasks[k], i) = 1}
             g == CHOOSE h \in hs :
                    \A x \in hs : load[h] < load[x] \/ (load[h] = load[x] /\ h <= x)
         IN  <<g>> \o assignGenerators(bitmasks, N_, k + 1, [load EXCEPT ![g] = @ + 1])

dkgSetup(params, sid) ==
    IF Len(sid) # 1 THEN [err |-> "Invalid session ID length"]
    ELSE LET bitmasks == KeygenMasks(params.T, params.N)
             gens == assignGenerators(bitmasks, params.N, 1, [i \in 0..(params.N - 1) |-> 0])
             all == {bitmasks[m] : m \in 1..Len(bitmasks)}
         IN  [err |-> "", bitmasks |-> bitmasks,
              holdersOf |-> [b \in all |-> holdersOf(b, params.N)],
              generatorAssignment |->
                  [b \in all |-> gens[CHOOSE m \in 1..Len(bitmasks) : bitmasks[m] = b]]]

\* Phase 1: rho_i and one seed per held bitmask are drawn and committed to
dkgPhase1(params, partyId, sid, entropy) ==
    IF partyId < 0 \/ partyId >= params.N THEN [err |-> "Invalid party ID"]
    ELSE IF Len(sid) # 1 THEN [err |-> "Invalid session ID length"]
    ELSE LET held == HeldBy(KeygenMasks(params.T, params.N), partyId)
             rho == randomBytes(entropy, 0)
             seeds == [b \in held |-> randomBytes(entropy, b)]
         IN  [err |-> "",
              broadcast |->
                  [partyId |-> partyId,
                   rhoCommitment |-> dkgCommit(sid, TagRho, partyId, rho),
                   bitmaskCommitments |->
                       [b \in held |-> dkgCommit(sid, TagBm, partyId, <<b>> \o seeds[b])]],
              state |-> [rho |-> rho, seeds |-> seeds]]

\* the seeds a party reveals to party j: every held bitmask
revealsForEvery(seeds, j) == seeds
\* the seeds a party reveals to party j: the bitmasks that j holds too
revealsFor(seeds, j) == [b \in {x \in DOMAIN seeds : Bit(x, j) = 1} |-> seeds[b]]

\* Phase 2: rho_i in the clear, the seeds to the fellow holders
dkgPhase2(params, partyId, sid, state, allPhase1) ==
    IF Len(allPhase1) # params.N THEN [err |-> "Expected N Phase 1 broadcasts"]
    ELSE LET fellows == {j \in 0..(params.N - 1) :
                           j # partyId /\ \E b \in DOMAIN state.seeds : Bit(b, j) = 1}
         IN  [err |-> "",
              broadcast |-> [partyId |-> partyId, rho |-> state.rho],
              privateToHolders |->
                  [j \in fellows |-> [fromPartyId |-> partyId,
                                      bitmaskReveals |-> revealsFor(state.seeds, j)]]]

\* the message of the list that party j sent (lists are searched by sender)
sentBy(list, j) == list[CHOOSE k \in 1..Len(list) : list[k].partyId = j]
revealFrom(reveals, j) == reveals[CHOOSE k \in 1..Len(reveals) : reveals[k].fromPartyId = j]

\* a commitment check that accepts every opening
opensAlways(commitment, sid, tag, party, payload) == TRUE
\* the opening (party, payload) hashes to the commitment under sid
opens(commitment, sid, tag, party, payload) ==
    commitment = dkgCommit(sid, tag, party, payload)

\* the senders whose rho broadcast does not open their Phase-1 commitment
rhoMismatches(sid, allPhase1, allPhase2) ==
    {allPhase2[k].partyId : k \in {x \in 1..Len(allPhase2) :
        ~opens(sentBy(allPhase1, allPhase2[x].partyId).rhoCommitment, sid, TagRho,
               allPhase2[x].partyId, allPhase2[x].rho)}}
\* the senders with a revealed seed that does not open their commitment
seedMismatches(sid, allPhase1, reveals) ==
    {reveals[k].fromPartyId : k \in {x \in 1..Len(reveals) :
        \E b \in DOMAIN reveals[x].bitmaskReveals :
           LET c == sentBy(allPhase1, reveals[x].fromPartyId).bitmaskCommitments
           IN  b \notin DOMAIN c
               \/ ~opens(c[b], sid, TagBm, reveals[x].fromPartyId,
                         <<b>> \o reveals[x].bitmaskReveals[b])}}

\* S_b with the seeds in the order in which they arrived (own seed first)
seedAsDelivered(sid, b, partyId, own, reveals) ==
    shake256(sid \o <<b>> \o own[b]
               \o Flatten(TupleTo([k \in 1..Len(reveals) |->
                                     IF b \in DOMAIN reveals[k].bitmaskReveals
                                     THEN reveals[k].bitmaskReveals[b] ELSE << >>],
                                  Len(reveals))), 64)
\* S_b = H(sessionId || b || r_{h0,b} || r_{h1,b} || ...), holders ascending
seedOf(sid, b, partyId, own, reveals) ==
    LET hs == holdersOf(b, MAX_PARTIES)
    IN  shake256(sid \o <<b>>
                   \o Flatten(TupleTo([k \in 1..Len(hs) |->
                                         IF hs[k] = partyId THEN own[b]
                                         ELSE revealFrom(reveals, hs[k]).bitmaskReveals[b]],
                                      Len(hs))), 64)

\* (s1_b, s2_b) from S_b, as keygen derives a share from its seed
dkgShare(p, seed) ==
    Let([s1 |-> TupleTo([j \in 1..p.L |-> deriveUniformLeqEta(p, seed, j - 1)], p.L),
         s2 |-> TupleTo([j \in 1..p.K |-> deriveUniformLeqEta(p, seed, j - 1 + p.L)], p.K)],
        LAMBDA s : [s1 |-> s.s1, s2 |-> s.s2, s1Hat |-> VecNTT(s.s1), s2Hat |-> VecNTT(s.s2)])

\* rho from the broadcasts in the order in which they arrived
dkgRhoAsDelivered(allPhase2, N_) ==
    shake256(Flatten(TupleTo([k \in 1..Len(allPhase2) |-> allPhase2[k].rho], Len(allPhase2))), 32)
\* rho = H(rho_0 || ... || rho_{N-1})
dkgRho(allPhase2, N_) ==
    shake256(Flatten(TupleTo([j \in 1..N_ |-> sentBy(allPhase2, j - 1).rho], N_)), 32)

\* the mask piece the generator draws for holder h of bitmask b
maskPiece(p, entropy, b, h) ==
    TupleTo([k \in 1..p.K |-> Poly([c \in Idx |-> Xof(<<entropy, b, h, k>>, c)])], p.K)
\* a generator that retains w itself
ownPieceWhole(p, w, others) == w
\* the piece the generator retains: w minus the pieces it sends
ownPiece(p, w, others) == VecMinus(w, VecSum(others, p.K))

\* Phase 2 finalize and Phase 3 of one party
dkgPhase2Finalize(p, params, partyId, sid, state, allPhase1, allPhase2, reveals, entropy) ==
    LET setup == dkgSetup(params, sid)
        held == DOMAIN state.seeds
        fellows == {j \in 0..(params.N - 1) : j # partyId /\ \E b \in held : Bit(b, j) = 1}
    IN  IF setup.err # "" THEN [err |-> setup.err]
        ELSE IF Len(allPhase1) # params.N THEN [err |-> "Expected N Phase 1 broadcasts"]
        ELSE IF Len(allPhase2) # params.N THEN [err |-> "Expected N Phase 2 broadcasts"]
        ELSE IF {reveals[k].fromPartyId : k \in 1..Len(reveals)} # fellows
                  \/ Len(reveals) # Cardinality(fellows)
             THEN [err |-> "Expected one reveal per fellow holder"]
        ELSE IF rhoMismatches(sid, allPhase1, allPhase2) # {}
             THEN [err |-> "Rho commitment mismatch"]
        ELSE IF seedMismatches(sid, allPhase1, reveals) # {}
             THEN [err |-> "Bitmask seed commitment mismatch"]
        ELSE
        Let(<<dkgRho(allPhase2, params.N),
              [b \in held |-> dkgShare(p, seedOf(sid, b, partyId, state.seeds, reveals))]>>,
            LAMBDA d :
        Let(ExpandA(p, d[1]), LAMBDA A :
        LET mine == {b \in held : setup.generatorAssignment[b] = partyId}
            w == [b \in mine |-> VecAdd(MatVec(p, A, d[2][b].s1Hat), d[2][b].s2)]
            others(b) == Ascending({h \in 0..(params.N - 1) : Bit(b, h) = 1 /\ h # partyId})
            sent == [b \in mine |->
                       TupleTo([k \in 1..Len(others(b)) |->
                                  maskPiece(p, entropy, b, others(b)[k])], Len(others(b)))]
            recipients == {h \in 0..(params.N - 1) :
                             h # partyId /\ \E b \in mine : Bit(b, h) = 1}
        IN  [err |-> "", rho |-> d[1], shares |-> d[2],
             generatorAssignment |-> setup.generatorAssignment,
             privateToAll |->
                 [h \in recipients |->
                    [fromGeneratorId |-> partyId,
                     maskPieces |-> [b \in {x \in mine : Bit(x, h) = 1} |->
                                       maskPiece(p, entropy, b, h)]]],
             ownMaskPieces |-> [b \in mine |-> ownPiece(p, w[b], sent[b])]]))

\* the K-vectors f[x] for x in S, as a list
ListOf(f, S) == LET ks == Ascending(S) IN TupleTo([k \in 1..Len(ks) |-> f[ks[k]]], Len(ks))
\* Phase 4: R_j, the sum of the received and of the retained mask pieces
dkgPhase4(p, params, partyId, bitmasks, generatorAssignment, receivedMasks, ownMaskPieces) ==
    LET got == TupleTo([k \in 1..Len(receivedMasks) |->
                          VecSum(ListOf(receivedMasks[k].maskPieces,
                                        DOMAIN receivedMasks[k].maskPieces), p.K)],
                       Len(receivedMasks))
    IN  [partyId |-> partyId,
         aggregate |-> VecAdd(VecSum(got, p.K),
                              VecSum(ListOf(ownMaskPieces, DOMAIN ownMaskPieces), p.K))]

\* dkgFinalize: t = sum of the aggregates, the public key and the key share
dkgFinalize(p, params, partyId, rho, phase4, shares, entropy) ==
    IF Len(phase4) # params.N THEN [err |-> "Expected N Phase 4 broadcasts"]
    ELSE Let(VecSum(TupleTo([k \in 1..Len(phase4) |-> phase4[k].aggregate], Len(phase4)), p.K),
             LAMBDA t :
         Let(publicEncode(rho, TupleTo([i \in 1..p.K |-> polyPowerRound(t[i]).r1], p.K)),
             LAMBDA publicKey :
             [err |-> "", publicKey |-> publicKey,
              share |-> [id |-> partyId, rho |-> rho, key |-> randomBytes(entropy, MaskBits),
                         tr |-> shake256(publicBytes(publicKey), TR_BYTES),
                         shares |-> shares]]))

(********************** a DKG session, party by party **********************)
\* Every party runs each phase in turn.  What the network hands to the
\* parties in Phase 2 finalize is chosen when the first of them starts it:
\* the messages as sent, in another order, altered, the Phase-2 messages of
\* another session (which drew its own randomness), or the whole transcript
\* of another session that was run with the same randomness.
SessionIds == {<<1>>, <<2>>, << >>}
DkgEntropies == {1, 2}
PartyEntropy(e, i) == (MaskBits * e) + i
OtherSession(sid) == <<(sid[1] % 2) + 1>>
OtherEntropy(e) == e + Cardinality(DkgEntropies)
Deliveries == {"in order", "reversed", "rotated", "rho altered", "seed altered",
               "other session", "other session reveals", "replayed session"}
Rotate(q, n) == [k \in 1..Len(q) |-> q[((k - 1 + n) % Len(q)) + 1]]

\* the Phase-1 and Phase-2 results of the N parties of a session
Phase1Of(params, sid, e) ==
    TupleTo([k \in 1..params.N |-> dkgPhase1(params, k - 1, sid, PartyEntropy(e, k - 1))],
            params.N)
Phase2Of(params, sid, ph1) ==
    LET all == TupleTo([k \in 1..Len(ph1) |-> ph1[k].broadcast], Len(ph1))
    IN  TupleTo([k \in 1..Len(ph1) |-> dkgPhase2(params, k - 1, sid, ph1[k].state, all)],
                Len(ph1))
AllPhase1 == TupleTo([k \in 1..Len(coms) |-> coms[k].broadcast], Len(coms))
BroadcastsOf(ph2) == TupleTo([k \in 1..Len(ph2) |-> ph2[k].broadcast], Len(ph2))
\* the private messages of ph2 addressed to party i, by ascending sender
RevealsTo(ph2, i) ==
    LET from == Ascending({k \in 1..Len(ph2) : i \in DOMAIN ph2[k].privateToHolders})
    IN  TupleTo([x \in 1..Len(from) |-> ph2[from[x]].privateToHolders[i]], Len(from))
OtherPhase2 ==
    Phase2Of(cfg.params, OtherSession(sess.sid),
             Phase1Of(cfg.params, OtherSession(sess.sid), OtherEntropy(sess.entropy)))
ReplayedPhase1 == Phase1Of(cfg.params, OtherSession(sess.sid), sess.entropy)
ReplayedPhase2 == Phase2Of(cfg.params, OtherSession(sess.sid), ReplayedPhase1)
AlterFirst(f) ==
    LET b == CHOOSE x \in DOMAIN f : \A y \in DOMAIN f : x <= y
    IN  [f EXCEPT ![b] = Altered(@)]

\* what party i is handed as allPhase1, allPhase2Broadcasts, receivedReveals
Phase1Handed(how) ==
    IF how = "replayed session"
    THEN TupleTo([k \in 1..cfg.params.N |-> ReplayedPhase1[k].broadcast], cfg.params.N)
    ELSE AllPhase1
BroadcastsHanded(how, i) ==
    LET sent == BroadcastsOf(st2)
    IN  CASE how = "reversed" -> Reverse(sent)
          [] how = "rotated" -> Rotate(sent, i + 1)
          [] how = "rho altered" -> [sent EXCEPT ![Len(sent)].rho = Altered(@)]
          [] how = "other session" -> BroadcastsOf(OtherPhase2)
          [] how = "replayed session" -> BroadcastsOf(ReplayedPhase2)
          [] OTHER -> sent
RevealsHanded(how, i) ==
    LET sent == RevealsTo(st2, i)
    IN  CASE how = "reversed" -> Reverse(sent)
          [] how = "rotated" -> IF sent = << >> THEN sent ELSE Rotate(sent, i + 1)
          [] how = "seed altered" ->
               IF sent = << >> THEN sent
               ELSE [sent EXCEPT ![1].bitmaskReveals = AlterFirst(@)]
          [] how \in {"other session", "other session reveals"} -> RevealsTo(OtherPhase2, i)
          [] how = "replayed session" -> RevealsTo(ReplayedPhase2, i)
          [] OTHER -> sent
\* the Phase-3 private messages addressed to party i
MasksHanded(i) ==
    LET from == Ascending({k \in 1..Len(rsps) : i \in DOMAIN rsps[k].privateToAll})
    IN  TupleTo([x \in 1..Len(from) |-> rsps[from[x]].privateToAll[i]], Len(from))

DkgSetup ==
    /\ pc = "created"
    /\ \E sid \in SessionIds, e \in DkgEntropies :
         /\ out' = [op |-> "dkgSetup", setup |-> dkgSetup(cfg.params, sid), results |-> << >>]
         /\ sess' = [sid |-> sid, entropy |-> e, delivery |-> "in order"]
    /\ pc' = IF out'.setup.err = "" THEN "dkg1" ELSE "done"
    /\ UNCHANGED <<cfg, keys, coms, wfin, rsps, st2>>

DkgPhase1 ==
    /\ pc = "dkg1"
    /\ coms' = Append(coms, dkgPhase1(cfg.params, Len(coms), sess.sid,
                                      PartyEntropy(sess.entropy, Len(coms))))
    /\ pc' = IF Len(coms') = cfg.params.N THEN "dkg2" ELSE "dkg1"
    /\ UNCHANGED <<cfg, keys, sess, wfin, rsps, st2, out>>

DkgPhase2 ==
    /\ pc = "dkg2"
    /\ st2' = Append(st2, dkgPhase2(cfg.params, Len(st2), sess.sid,
                                    coms[Len(st2) + 1].state, AllPhase1))
    /\ pc' = IF Len(st2') = cfg.params.N THEN "dkg3" ELSE "dkg2"
    /\ UNCHANGED <<cfg, keys, sess, coms, wfin, rsps, out>>

DkgPhase2Finalize ==
    /\ pc = "dkg3"
    /\ \E how \in Deliveries :
         /\ (rsps # << >>) => how = sess.delivery
         /\ sess' = [sess EXCEPT !.delivery = how]
         /\ rsps' = Append(rsps,
                dkgPhase2Finalize(Prm, cfg.params, Len(rsps), sess.sid,
                                  coms[Len(rsps) + 1].state, Phase1Handed(how),
                                  BroadcastsHanded(how, Len(rsps)),
                                  RevealsHanded(how, Len(rsps)),
                                  PartyEntropy(sess.entropy, Len(rsps))))
    /\ pc' = IF Len(rsps') < cfg.params.N THEN "dkg3"
             ELSE IF \E k \in 1..Len(rsps') : rsps'[k].err # "" THEN "done"
             ELSE "dkg4"
    /\ out' = [out EXCEPT !.op = "dkgPhase2Finalize"]
    /\ UNCHANGED <<cfg, keys, coms, wfin, st2>>

DkgPhase4 ==
    /\ pc = "dkg4"
    /\ wfin' = Append(wfin,
           dkgPhase4(Prm, cfg.params, Len(wfin), out.setup.bitmasks,
                     rsps[Len(wfin) + 1].generatorAssignment, MasksHanded(Len(wfin)),
                     rsps[Len(wfin) + 1].ownMaskPieces))
    /\ pc' = IF Len(wfin') = cfg.params.N THEN "dkg5" ELSE "dkg4"
    /\ out' = [out EXCEPT !.op = "dkgPhase4"]
    /\ UNCHANGED <<cfg, keys, sess, coms, rsps, st2>>

DkgFinalize ==
    /\ pc = "dkg5"
    /\ LET i == Len(out.results)
       IN  out' = [out EXCEPT !.op = "dkgFinalize",
                              !.results = Append(@,
                                  dkgFinalize(Prm, cfg.params, i, rsps[i + 1].rho, wfin,
                                              rsps[i + 1].shares,
                                              PartyEntropy(sess.entropy, i)))]
    /\ IF Len(out'.results) = cfg.params.N
       THEN /\ pc' = "dkgdone"
            /\ keys' = [publicKey |-> out'.results[1].publicKey,
                        shares |-> [i \in 0..(cfg.params.N - 1) |-> out'.results[i + 1].share]]
       ELSE /\ pc' = "dkg5"
            /\ keys' = keys
    /\ UNCHANGED <<cfg, sess, coms, wfin, rsps, st2>>

NextDkg ==
    \/ Create
    \/ Keygen
    \/ DkgSetup
    \/ DkgPhase1
    \/ DkgPhase2
    \/ DkgPhase2Finalize
    \/ DkgPhase4
    \/ DkgFinalize
SpecDkg == Init /\ [][NextDkg]_vars

(************************* properties of the DKG ***************************)
DkgRunning == pc \in {"dkg1", "dkg2", "dkg3", "dkg4", "dkg5", "dkgdone", "done"}
HonestDeliveries == {"in order", "reversed", "rotated"}

\* C5: in an honest DKG run (every message delivered as sent, in whatever
\* order) no phase fails, all N parties finalize, and the parties that have
\* finalized hold byte-identical public keys and the same rho and tr.
DkgPartiesAgree ==
    DkgRunning =>
      /\ (sess.delivery \in HonestDeliveries /\ Len(coms) > 0) => pc # "done"
      /\ pc = "dkgdone" => Len(out.results) = cfg.params.N
      /\ \A i, j \in 1..Len(out.results) :
            /\ out.results[i].err = ""
            /\ out.results[i].publicKey = out.results[j].publicKey
            /\ out.results[i].share.rho = out.results[j].share.rho
            /\ out.results[i].share.tr = out.results[j].share.tr
            /\ out.results[i].share.tr = shake256(publicBytes(out.results[i].publicKey), TR_BYTES)
DkgFinalizedOutOfOrder ==
    /\ pc = "dkgdone"
    /\ sess.delivery = "rotated"
    /\ cfg.params.N >= 3
    /\ Len(out.results) = cfg.params.N
    /\ \E i \in Parties(cfg.params.N) :
          BroadcastsHanded(sess.delivery, i) # BroadcastsOf(st2)

\* whether a rho broadcast, a private reveal handed to party i fails to open
\* the Phase-1 commitment of its sender (of the Phase-1 broadcasts handed to
\* the party) under the session id of the party
RhoFailsToOpen(i) ==
    LET bs == BroadcastsHanded(sess.delivery, i)
    IN  \E k \in 1..Len(bs) :
           shake256(sess.sid \o TagRho \o <<bs[k].partyId>> \o bs[k].rho, 32)
             # sentBy(Phase1Handed(sess.delivery), bs[k].partyId).rhoCommitment
SeedFailsToOpen(i) ==
    LET rv == RevealsHanded(sess.delivery, i)
    IN  \E k \in 1..Len(rv) : \E b \in DOMAIN rv[k].bitmaskReveals :
           shake256(sess.sid \o TagBm \o <<rv[k].fromPartyId, b>> \o rv[k].bitmaskReveals[b], 32)
             # sentBy(Phase1Handed(sess.delivery), rv[k].fromPartyId).bitmaskCommitments[b]

\* C6: dkgPhase2Finalize of a party fails with 'Rho commitment mismatch' or
\* 'Bitmask seed commitment mismatch' and returns no shares whenever a rho
\* broadcast or a private reveal handed to it does not open the Phase-1
\* commitment of its sender under the party's session id; the Phase-2
\* broadcasts of another session never pass, against the party's own
\* Phase-1 commitments or under the party's own session id.
CommitmentMismatchRejected ==
    DkgRunning =>
      \A k \in 1..Len(rsps) :
         /\ (RhoFailsToOpen(k - 1) \/ SeedFailsToOpen(k - 1)) =>
               /\ rsps[k].err \in {"Rho commitment mismatch", "Bitmask seed commitment mismatch"}
               /\ "shares" \notin DOMAIN rsps[k]
         /\ (RhoFailsToOpen(k - 1) /\ ~SeedFailsToOpen(k - 1)) =>
               rsps[k].err = "Rho commitment mismatch"
         /\ (SeedFailsToOpen(k - 1) /\ ~RhoFailsToOpen(k - 1)) =>
               rsps[k].err = "Bitmask seed commitment mismatch"
         /\ sess.delivery \in {"other session", "replayed session"} =>
               rsps[k].err = "Rho commitment mismatch"
OtherSessionRejected ==
    /\ pc = "done"
    /\ sess.delivery = "other session"
    /\ Len(rsps) = cfg.params.N
    /\ \A k \in 1..Len(rsps) : rsps[k].err = "Rho commitment mismatch"

\* C7: after key generation, by the dealer or by DKG, the share map of party
\* i has an entry for b exactly when b is an N-bit mask with N - T + 1 bits
\* set, bit i among them; every party lacks the share of some such mask.
SharesHeldByHolders ==
    pc \in {"keyed", "dkgdone"} =>
      LET masks == {b \in 0..(2 ^ cfg.params.N - 1) :
                      PopCount(b) = cfg.params.N - cfg.params.T + 1}
      IN  \A i \in Parties(cfg.params.N) :
             /\ DOMAIN keys.shares[i].shares = {b \in masks : Bit(b, i) = 1}
             /\ \E b \in masks : b \notin DOMAIN keys.shares[i].shares
KeygenDealtShares ==
    /\ pc = "keyed"
    /\ cfg.params.T = 3 /\ cfg.params.N = 5
    /\ Cardinality(DOMAIN keys.shares[0].shares) = 6

\* C8: the private Phase-2 message of party i to party j reveals seeds only
\* for bitmasks that have both bit i and bit j, so that no party receives a
\* seed of a bitmask it does not hold.
RevealsOnlyToHolders ==
    DkgRunning =>
      \A k \in 1..Len(st2) : \A j \in DOMAIN st2[k].privateToHolders :
         /\ j # k - 1
         /\ st2[k].privateToHolders[j].fromPartyId = k - 1
         /\ \A b \in DOMAIN st2[k].privateToHolders[j].bitmaskReveals :
               Bit(b, k - 1) = 1 /\ Bit(b, j) = 1
RevealWithheld ==
    /\ pc = "dkg3"
    /\ \E k \in 1..Len(st2) : \E j \in DOMAIN st2[k].privateToHolders :
          /\ st2[k].privateToHolders[j].bitmaskReveals # << >>
          /\ \E b \in DOMAIN coms[k].state.seeds :
                b \notin DOMAIN st2[k].privateToHolders[j].bitmaskReveals

\* C9: after Phase 2 finalize all the holders of a bitmask have derived the
\* same s1, s2, s1Hat and s2Hat for it, in whatever order the broadcasts and
\* the reveals were handed to each of them.
HoldersDeriveSameShare ==
    DkgRunning =>
      \A k1, k2 \in 1..Len(rsps) :
         (rsps[k1].err = "" /\ rsps[k2].err = "") =>
            /\ \A b \in DOMAIN rsps[k1].shares : Bit(b, k1 - 1) = 1
            /\ \A b \in DOMAIN rsps[k1].shares \cap DOMAIN rsps[k2].shares :
                  rsps[k1].shares[b] = rsps[k2].shares[b]
SharesDerivedOutOfOrder ==
    /\ pc = "dkg4"
    /\ sess.delivery = "rotated"
    /\ cfg.params.N - cfg.params.T + 1 >= 3
    /\ \E i \in Parties(cfg.params.N) : RevealsHanded(sess.delivery, i) # RevealsTo(st2, i)
    /\ \E b \in DOMAIN rsps[1].shares : rsps[1].shares[b].s1 # ZeroVec(Prm.L)

\* C10: the Phase-4 aggregates sum to A*s1 + s2 mod Q, where s1 and s2 are
\* the sums over all the bitmasks of the shares s1_b and s2_b.
AggregatesSumToPublic ==
    (DkgRunning /\ pc \in {"dkg5", "dkgdone"}) =>
      LET masks == out.setup.bitmasks
          share(m) == rsps[out.setup.generatorAssignment[masks[m]] + 1].shares[masks[m]]
          s1 == VecSum(TupleTo([m \in 1..Len(masks) |-> share(m).s1], Len(masks)), Prm.L)
          s2 == VecSum(TupleTo([m \in 1..Len(masks) |-> share(m).s2], Len(masks)), Prm.K)
      IN  VecSum(TupleTo([k \in 1..Len(wfin) |-> wfin[k].aggregate], Len(wfin)), Prm.K)
            = VecAdd(MatVec(Prm, ExpandA(Prm, rsps[1].rho), VecNTT(s1)), s2)
AggregatesOfSplitMasks ==
    /\ pc = "dkg5"
    /\ cfg.params.N - cfg.params.T + 1 >= 2
    /\ \E k \in 1..Len(rsps) : \E h \in DOMAIN rsps[k].privateToAll :
          \E b \in DOMAIN rsps[k].privateToAll[h].maskPieces :
             rsps[k].privateToAll[h].maskPieces[b] # ZeroVec(Prm.K)
    /\ \E k \in 1..Len(wfin) : wfin[k].aggregate # ZeroVec(Prm.K)

(****************** destruction of the round states ***********************)
AllZero(q) == \A i \in 1..Len(q) : q[i] = 0
RoundsRunning == pc \in {"round1", "round2", "round3", "combine", "done"}
\* a destroyed state throws from every getter and holds zeros
Poisoned ==
    /\ \A k \in 1..Len(coms) :
          coms[k].state.destroyed =>
             /\ get_stws(coms[k].state).err = "Round1State has been destroyed"
             /\ get_commitment(coms[k].state).err = "Round1State has been destroyed"
             /\ \A it \in 1..Len(coms[k].state.stws) : AllZero(coms[k].state.stws[it].v)
    /\ \A k \in 1..Len(st2) :
          (st2[k].err = "" /\ st2[k].state.destroyed) =>
             /\ get_hashes(st2[k].state).err = "Round2State has been destroyed"
             /\ get_mu(st2[k].state).err = "Round2State has been destroyed"
             /\ get_act(st2[k].state).err = "Round2State has been destroyed"
             /\ get_activePartyIds(st2[k].state).err = "Round2State has been destroyed"
             /\ AllZero(st2[k].state.mu)
    /\ out.op = "destroy1" => (out.err = "" /\ coms[1].state.destroyed)
    /\ out.op = "destroy2" => (out.err = "" /\ st2[1].state.destroyed)
\* no step changes a destroyed state; destroy() of a destroyed state changes
\* nothing; round2 and round3 throw when they are given a destroyed state
StaysDestroyed ==
    RoundsRunning =>
      /\ \A k \in 1..Len(coms) :
            coms[k].state.destroyed => coms'[k].state = coms[k].state
      /\ \A k \in 1..Len(st2) :
            (st2[k].err = "" /\ st2[k].state.destroyed) => st2'[k].state = st2[k].state
      /\ (Len(st2') = Len(st2) + 1 /\ coms[Len(st2')].state.destroyed) =>
            /\ st2'[Len(st2')].err # ""
            /\ "commitment" \notin DOMAIN st2'[Len(st2')]
      /\ (Len(rsps') = Len(rsps) + 1
            /\ (coms[Len(rsps')].state.destroyed \/ st2[Len(rsps')].state.destroyed)) =>
            /\ rsps'[Len(rsps')].err # ""
            /\ rsps'[Len(rsps')].response = << >>

\* C11: destroy() of a Round1State or Round2State is one-shot and permanent:
\* from the first destroy() on every getter of the state throws in every
\* later state, no step makes the state usable again, round2 and round3
\* throw when given the state, a second destroy() returns without changing
\* anything, and the hyperball vectors (Round1State), mu (Round2State) are
\* all zero.
DestroyIsPermanent == [](RoundsRunning => Poisoned) /\ [][StaysDestroyed]_vars
DestroyedTwice ==
    /\ pc = "round3"
    /\ out.op = "destroy2" /\ out.again
    /\ coms[1].state.destroyed /\ st2[1].state.destroyed
    /\ \E it \in 1..Len(coms[1].state.stws) : Len(coms[1].state.stws[it].v) > 0

(***************** zeroization in the threshold sign **********************)
\* the buffers the passes of sign created hold zeros only
PassBuffersZero ==
    \A n \in 1..Len(st2) :
       /\ \A pi \in 1..Len(st2[n].allStws) : \A it \in 1..Len(st2[n].allStws[pi]) :
             AllZero(st2[n].allStws[pi][it].v)
       /\ st2[n].s1Hat = ZeroVec(Prm.L) /\ st2[n].s2Hat = ZeroVec(Prm.K)
       /\ st2[n].cs1 = ZeroVec(Prm.L) /\ st2[n].cs2 = ZeroVec(Prm.K)

\* C12: when the threshold sign has ended after at least one pass of its
\* loop (with a signature, or with the throw after the last attempt), every
\* hyperball vector and every s1Hat, s2Hat, cs1, cs2 created by any of its
\* passes, and mu, hold zeros only.
SignLeavesZeros ==
    (pc = "signed" /\ out.attempts > 0) => (AllZero(sess.mu) /\ PassBuffersZero)

(****************** the secret key of the baseline sign *******************)
MlKeyed == pc \in {"mlkeyed", "mlsigning", "mlsigned", "mlverified"}

\* C13: the baseline sign never changes the secret key it is given: over
\* every step of every sign call (the passes of the rejection loop that are
\* rejected and the one that returns, for any message, context and
\* extraEntropy) the secretKey bytes stay what keygen returned, so every
\* later sign sees the same key.
SignKeepsSecretKey == [][MlKeyed => keys'.secretKey = keys.secretKey]_vars
SignedTwiceAfterRetry ==
    /\ pc = "mlsigned" /\ out.err = ""
    /\ sess.signs >= 2
    /\ sess.kappa > Prm.L

(********************* the key shares after keygen ************************)
\* sign or the distributed rounds, after one keygen
NextThreshold ==
    \/ Create
    \/ Keygen
    \/ SignStart
    \/ SignPass
    \/ Open
    \/ Round1
    \/ Round2
    \/ Destroy1
    \/ Destroy2
    \/ Round3
    \/ Combine
SpecThreshold == Init /\ [][NextThreshold]_vars
ThresholdKeyed ==
    pc \in {"keyed", "signing", "signed", "round1", "round2", "round3", "combine", "done"}

\* C14: the key shares are immutable after keygen: no step of sign, round1,
\* round2 or round3 changes rho, key, tr or a coefficient of a stored s1, s2,
\* s1Hat, s2Hat of any share, on the T = N path too and although the
\* recovered share of every attempt is zeroed.
SharesImmutable == [][ThresholdKeyed => keys' = keys]_vars
SignedWithAllParties ==
    /\ pc = "signed" /\ out.err = ""
    /\ cfg.params.T = cfg.params.N
    /\ st2[1].s1Hat = ZeroVec(Prm.L)
    /\ \A b \in DOMAIN keys.shares[0].shares : keys.shares[0].shares[b].s1Hat # ZeroVec(Prm.L)

(***************** the rejection loop of the baseline sign ****************)
\* C15 as stated: the baseline sign makes at most 500 (here MlAttemptsCap)
\* passes of its rejection loop and fails hard when none of them is
\* accepted.
BaselineSignCapped ==
    pc \in {"mlsigning", "mlsigned", "mlverified"} =>
      /\ sess.kappa <= MlAttemptsCap * Prm.L
      /\ (pc = "mlsigning" /\ sess.kappa = MlAttemptsCap * Prm.L) => out.err # ""
\* C15: the baseline sign has no cap on its attempts: after a rejected pass
\* it makes another, however many were rejected before, it surfaces no
\* failure, and it returns only with the signature of an accepted pass.
BaselineSignLoopsOn ==
    (pc \in {"mlsigning", "mlsigned"} /\ sess.kappa > 0) =>
      /\ out.err = ""
      /\ pc = "mlsigned" <=> rsps.ok
SignedBeyondCap ==
    /\ pc = "mlsigned" /\ out.err = "" /\ rsps.ok
    /\ sess.kappa > MlAttemptsCap * Prm.L

(******************* the rejection loop of threshold sign *****************)
\* mu of the call of sign, as computed before the loop
LastCombineMu ==
    shake256(keys.shares[sess.ids[1]].tr \o getMessage(sess.msg, sess.ctx), CRH_BYTES)
\* what #combine returns on the aggregates of the last pass of sign
LastCombine ==
    combineCore(Prm, keys.publicKey, LastCombineMu, wfin,
                aggregateResponses(Prm, cfg.params,
                    TupleTo([pi \in 1..cfg.params.T |-> rsps[pi].zs], cfg.params.T)))
InSignLoop ==
    /\ pc \in {"signing", "signed"}
    /\ sess.err = "" /\ out.attempts > 0 /\ FirstErr(rsps) = ""
\* C16: ThresholdMLDSA.sign makes at most 500 (here Passes) attempts,
\* numbered from 0, each with a new draw of randomness for each party; it
\* returns at the first attempt whose #combine yields a signature (an
\* attempt is only made while every earlier one yielded none), and it throws
\* exactly when the last allowed attempt yields none as well.
SignLoopBounded ==
    InSignLoop =>
      /\ out.attempts = sess.attempt /\ sess.attempt <= Passes
      /\ Len(st2) = sess.attempt
      /\ sess.rhops = TupleTo([pi \in 1..cfg.params.T |->
                          randomBytes(sess.entropy,
                                      (sess.attempt - 1) * cfg.params.T + pi - 1)],
                              cfg.params.T)
      /\ (pc = "signed" /\ out.err = "") <=> LastCombine.ok
      /\ (pc = "signed" /\ out.err = "") => out.sig = LastCombine.sig
      /\ (pc = "signed" /\ out.err # "") <=> (~LastCombine.ok /\ sess.attempt = Passes)
      /\ pc = "signing" <=> (~LastCombine.ok /\ sess.attempt < Passes)
SignAttemptsExhausted ==
    /\ InSignLoop /\ pc = "signed" /\ sess.attempt = Passes
    /\ out.err = "Failed to produce valid threshold signature after 500 attempts"

(***************************** the combine step ***************************)
\* the infinity norm of a vector of polynomials (centred coefficients)
InfNorm(v) ==
    LET abs == {Abs(smod(v[j][c])) : j \in 1..Len(v), c \in Idx}
    IN CHOOSE m \in abs : \A x \in abs : x <= m
\* the aggregated responses of the last pass of sign
LastZfinals ==
    aggregateResponses(Prm, cfg.params,
        TupleTo([pi \in 1..cfg.params.T |-> rsps[pi].zs], cfg.params.T))
\* f = (Az - 2^d c t1) - wfinal of the iteration it, and the weight of the
\* hint made of it
IterF(it) ==
    Let(NTTencode(SampleInBall(Prm, ChallengeHash(Prm, LastCombineMu,
                                                  HighBitsVec(Prm, wfin[it])))),
        LAMBDA cHat :
        VecMinus(wApproxVec(Prm, ExpandA(Prm, keys.publicKey.rho),
                            publicDecode(keys.publicKey).t1, cHat, VecNTT(LastZfinals[it])),
                 wfin[it]))
IterHintWeight(it) ==
    Let(IterF(it), LAMBDA f :
        SumInt(TupleTo([j \in 1..Prm.K |->
            polyMakeHint(Prm,
                         Poly([c \in Idx |-> mod(LowBits(Prm, wfin[it][j][c]) + f[j][c])]),
                         Poly([c \in Idx |-> HighBits(Prm, wfin[it][j][c])])).cnt], Prm.K)))
\* the iteration fails one of the three checks of the combine step
IterFails(it) ==
    \/ InfNorm(LastZfinals[it]) >= Prm.GAMMA1 - BETA(Prm)
    \/ InfNorm(IterF(it)) >= Prm.GAMMA2
    \/ IterHintWeight(it) > Prm.OMEGA
\* C17: the combine step returns null exactly when every one of the K_iter
\* iterations fails a check (norm of zfinal >= gamma1 - beta, norm of
\* f >= gamma2, hint weight > omega); otherwise it returns the signature
\* encoded from the lowest-index iteration that passes them all.
CombineTakesFirstPassing ==
    InSignLoop =>
      Let(LastCombine, LAMBDA r :
        /\ ~r.ok <=> \A it \in 1..cfg.params.K_iter : IterFails(it)
        /\ r.ok =>
             /\ ~IterFails(r.iter)
             /\ \A it \in 1..(r.iter - 1) : IterFails(it)
             /\ r.sig = combineIter(Prm, ExpandA(Prm, keys.publicKey.rho),
                                    publicDecode(keys.publicKey).t1, LastCombineMu,
                                    wfin[r.iter], LastZfinals[r.iter]).sig)
CombineSkippedFirst ==
    /\ InSignLoop /\ LastCombine.ok /\ LastCombine.iter > 1
    /\ IterFails(1) /\ ~IterFails(2)

(*************************** the checks of round2 *************************)
\* the call of round2 of the session falls under one of the three cases
Round2CallRejected ==
    \/ Len(sess.ids) < cfg.params.T
    \/ \E i, j \in 1..Len(sess.ids) : i < j /\ sess.ids[i] = sess.ids[j]
    \/ Len(sess.hashes) # Len(sess.ids)
\* C18: round2 throws, and returns no commitment, for every call whose list
\* of active parties has fewer than T ids or a repeated id, or whose number
\* of round-1 hashes is not the number of active ids; a packed commitment is
\* only returned to a call that was given one round-1 hash per active party.
Round2ChecksItsInput ==
    RoundsRunning =>
      \A k \in 1..Len(st2) :
         /\ Round2CallRejected =>
              st2[k].err # "" /\ "commitment" \notin DOMAIN st2[k]
         /\ "commitment" \in DOMAIN st2[k] =>
              /\ Len(sess.hashes) = Len(sess.ids)
              /\ st2[k].commitment = coms[k].state.commitment
Round2RejectedHashCount ==
    /\ pc = "done" /\ out.op = "round2" /\ out.err = "Expected n hashes"
    /\ Len(sess.ids) >= cfg.params.T /\ Len(sess.hashes) # Len(sess.ids)
    /\ "commitment" \notin DOMAIN st2[Len(st2)]

(********************** the shares handed to sign *************************)
\* two of the shares handed to sign carry the same party id
SharesRepeatAnId ==
    \E i, j \in 1..Len(sess.ids) :
       i < j /\ keys.shares[sess.ids[i]].id = keys.shares[sess.ids[j]].id
\* C19: ThresholdMLDSA.sign throws if two of the shares passed to it have
\* the same party id.
SignRejectsRepeatedId ==
    (pc = "signed" /\ SharesRepeatAnId) => out.err # ""

(********************* specification SpecParams ***************************)
\* getParams and create as functions of their three numbers: a level, T and
\* N are drawn, one of the two is called, and out holds what the call
\* threw or returned.
ParamRange == 8
LevelsAsked == {0, 44, 45, 65, 87, 127, 128, 192, 256, 257}
InitParams ==
    /\ pc = "asked"
    /\ cfg \in [level : LevelsAsked, T : (-1)..ParamRange, N : (-1)..ParamRange]
    /\ keys = 0 /\ sess = 0
    /\ coms = << >> /\ wfin = << >> /\ rsps = << >> /\ st2 = << >> /\ out = 0
GetParams ==
    /\ pc = "asked"
    /\ out' = [op |-> "getParams", res |-> getParams(cfg.T, cfg.N, cfg.level)]
    /\ pc' = "answered"
    /\ UNCHANGED <<cfg, keys, sess, coms, wfin, rsps, st2>>
CreateAsked ==
    /\ pc = "asked"
    /\ out' = Let(create(cfg.level, cfg.T, cfg.N), LAMBDA th :
                  [op |-> "create", res |-> IF th.err # "" THEN th ELSE th.params])
    /\ pc' = "answered"
    /\ UNCHANGED <<cfg, keys, sess, coms, wfin, rsps, st2>>
NextParams ==
    \/ GetParams
    \/ CreateAsked
SpecParams == InitParams /\ [][NextParams]_vars

\* the level of which a level of 128, 192 or 256 is the other name
NamedAlso(level) ==
    CASE level = 128 -> 44 [] level = 192 -> 65 [] level = 256 -> 87 [] OTHER -> level
\* C20: getParams(T, N, level), and create, return parameters exactly when
\* level is one of 44, 65, 87, 128, 192, 256 and 2 <= T <= N <= 6, and throw
\* otherwise; levels 128, 192 and 256 yield the parameters of 44, 65 and 87;
\* every entry returned has the T and N asked for, nu = 3, K_iter between 2
\* and 100 and r < rPrime.
ParamsExactlyForSupported ==
    pc = "answered" =>
      /\ out.res.err = "" <=>
           /\ cfg.level \in {44, 65, 87, 128, 192, 256}
           /\ 2 <= cfg.T /\ cfg.T <= cfg.N /\ cfg.N <= 6
      /\ out.res.err = "" =>
           /\ out.res = getParams(cfg.T, cfg.N, NamedAlso(cfg.level))
           /\ out.res.T = cfg.T /\ out.res.N = cfg.N /\ out.res.nu = 3
           /\ 2 <= out.res.K_iter /\ out.res.K_iter <= 100
           /\ out.res.r < out.res.rPrime
ParamsOfOtherName ==
    /\ pc = "answered" /\ out.res.err = ""
    /\ cfg.level = 192 /\ cfg.T = 5 /\ cfg.N = 6 /\ out.res.K_iter = 100

(********************** specification SpecMasks ***************************)
\* The while loop of keygen over honestSigners, followed one step at a time
\* for every 2 <= T <= N <= 6: sess.hs is honestSigners, sess.visited the
\* values the body of the loop has run with, in order.
MasksStart ==
    /\ pc = "start"
    /\ \E N_ \in 2..MAX_PARTIES : \E T \in 2..N_ :
         /\ cfg' = [T |-> T, N |-> N_]
         /\ sess' = [hs |-> 2 ^ (N_ - T + 1) - 1, visited |-> << >>]
    /\ pc' = "enumerating"
    /\ UNCHANGED <<keys, coms, wfin, rsps, st2, out>>
\* one pass of the loop, or its exit; a loop that made 2^N passes has
\* repeated a value and is followed no further
MasksStep ==
    /\ pc = "enumerating"
    /\ Len(sess.visited) < 2 ^ cfg.N
    /\ IF sess.hs < 2 ^ cfg.N
       THEN /\ sess' = [hs |-> GosperNext(sess.hs), visited |-> Append(sess.visited, sess.hs)]
            /\ pc' = pc
       ELSE /\ sess' = sess
            /\ pc' = "enumerated"
    /\ UNCHANGED <<cfg, keys, coms, wfin, rsps, st2, out>>
NextMasks ==
    \/ MasksStart
    \/ MasksStep
SpecMasks == Init /\ [][NextMasks]_vars

\* the binomial coefficient, by Pascal's rule
RECURSIVE Binomial(_, _)
Binomial(n, k) ==
    IF k = 0 \/ k = n THEN 1
    ELSE IF k < 0 \/ k > n THEN 0
    ELSE Binomial(n - 1, k - 1) + Binomial(n - 1, k)
\* the N-bit integers with exactly k bits set
WithBits(N_, k) ==
    {m \in 0..(2 ^ N_ - 1) : Cardinality({i \in 0..(N_ - 1) : Bit(m, i) = 1}) = k}
\* C21: for 2 <= T <= N <= 6 the enumeration from (1 << (N-T+1)) - 1 by
\* Gosper's step, while the value is below 1 << N, visits the N-bit
\* integers with exactly N-T+1 bits set in strictly increasing order and
\* without a gap, and stops after exactly C(N, N-T+1) steps having visited
\* all of them and nothing else.
GosperVisitsEveryMask ==
    pc \in {"enumerating", "enumerated"} =>
      LET k == cfg.N - cfg.T + 1
          v == sess.visited
      IN  /\ \A i \in 1..Len(v) : v[i] \in WithBits(cfg.N, k)
          /\ \A i \in 1..(Len(v) - 1) : v[i] < v[i + 1]
          /\ \A m \in WithBits(cfg.N, k) :
                (Len(v) > 0 /\ m <= v[Len(v)]) => \E i \in 1..Len(v) : v[i] = m
          /\ Len(v) <= Binomial(cfg.N, k)
          /\ pc = "enumerating" => (sess.hs < 2 ^ cfg.N <=> Len(v) < Binomial(cfg.N, k))
          /\ pc = "enumerated" =>
                /\ Len(v) = Binomial(cfg.N, k)
                /\ {v[i] : i \in 1..Len(v)} = WithBits(cfg.N, k)
                /\ v = KeygenMasks(cfg.T, cfg.N)
MasksEnumerated ==
    /\ pc = "enumerated" /\ cfg.N = MAX_PARTIES /\ cfg.T = 4
    /\ Len(sess.visited) = 20

(********************* the DKG generator assignment ***********************)
DkgSetUp == DkgRunning /\ out.setup.err = ""
\* the bitmasks before the m-th of the enumeration that h generates
LoadBefore(m, h) ==
    Cardinality({x \in 1..(m - 1) :
                   out.setup.generatorAssignment[out.setup.bitmasks[x]] = h})
\* the number of bitmasks h generates
LoadOf(h) == LoadBefore(Len(out.setup.bitmasks) + 1, h)
\* C22: the generator of each bitmask, taken in enumeration order, is the
\* holder with the least load so far, the lowest id among equals; every
\* generator is a holder of its bitmask, every party arrives at the same
\* assignment, and no party generates more than
\* ceil(#bitmasks / (N-T+1)) + 1 bitmasks.
GeneratorsByLeastLoad ==
    DkgSetUp =>
      LET masks == out.setup.bitmasks
          ga == out.setup.generatorAssignment
          k == cfg.params.N - cfg.params.T + 1
      IN  /\ masks = KeygenMasks(cfg.params.T, cfg.params.N)
          /\ \A m \in 1..Len(masks) :
               LET g == ga[masks[m]]
                   holders == {i \in 0..(cfg.params.N - 1) : Bit(masks[m], i) = 1}
               IN  /\ g \in holders
                   /\ holders = {out.setup.holdersOf[masks[m]][i] : i \in 1..k}
                   /\ \A x \in holders :
                        \/ LoadBefore(m, g) < LoadBefore(m, x)
                        \/ LoadBefore(m, g) = LoadBefore(m, x) /\ g <= x
          /\ \A h \in 0..(cfg.params.N - 1) :
               LoadOf(h) <= (Len(masks) + k - 1) \div k + 1
          /\ pc \in {"dkg3", "dkg4", "dkg5", "dkgdone", "done"} =>
               \A i \in 1..Len(rsps) : rsps[i].err = "" => rsps[i].generatorAssignment = ga
GeneratorsUneven ==
    /\ DkgSetUp /\ pc = "dkg4" /\ Len(rsps) = cfg.params.N
    /\ \A i \in 1..Len(rsps) : rsps[i].err = ""
    /\ \E h, x \in 0..(cfg.params.N - 1) : LoadOf(h) > LoadOf(x) /\ LoadOf(x) > 0

(*********************** specification SpecPack ***************************)
\* packPolys and unpackPolys as functions: K_iter vectors of dim
\* polynomials with coefficients in [0, Q) are drawn and packed, and
\* unpackPolys is handed the packed bytes as they are, with one byte (of
\* the first field, or the last of a polynomial) overwritten, one byte short
\* or one byte long.
PackVals == {0, 1, 2 ^ 22, 5592405, Q - 1}
PackShapes == {<<1, 1>>, <<2, 2>>}
\* the polynomials drawn: a everywhere but b at pos, turned by one place from
\* one polynomial to the next
PackInput(a, b, pos, dim, K_iter) ==
    TupleTo([it \in 1..K_iter |->
       TupleTo([j \in 1..dim |->
          TupleTo([c \in 1..PackN |->
                     IF ((c + (it - 1) * dim + j - 2) % PackN) + 1 = pos THEN b ELSE a],
                  PackN)], dim)], K_iter)
HandedBuffers(buf) ==
    {buf, SubSeq(buf, 1, Len(buf) - 1), Append(buf, 0)}
      \cup {[buf EXCEPT ![x] = 255] : x \in {1, 2, 3, PackBytes, Len(buf)}}
PackChoose ==
    /\ pc = "start"
    /\ \E a, b \in PackVals, pos \in 1..PackN, shape \in PackShapes :
         sess' = [dim |-> shape[1], K_iter |-> shape[2],
                  polys |-> PackInput(a, b, pos, shape[1], shape[2])]
    /\ pc' = "topack"
    /\ UNCHANGED <<cfg, keys, coms, wfin, rsps, st2, out>>
PackPolys ==
    /\ pc = "topack"
    /\ out' = Let(packPolysBytes(sess.polys, sess.dim, sess.K_iter), LAMBDA r :
                  [op |-> "packPolys", buf |-> r.buf, max |-> r.max, over |-> r.over])
    /\ pc' = "packed"
    /\ UNCHANGED <<cfg, keys, sess, coms, wfin, rsps, st2>>
UnpackPolys ==
    /\ pc = "packed"
    /\ \E handed \in HandedBuffers(out.buf) :
         out' = [op |-> "unpackPolys", buf |-> out.buf, handed |-> handed,
                 res |-> unpackPolysBytes(handed, sess.dim, sess.K_iter)]
    /\ pc' = "unpacked"
    /\ UNCHANGED <<cfg, keys, sess, coms, wfin, rsps, st2>>
NextPack ==
    \/ PackChoose
    \/ PackPolys
    \/ UnpackPolys
SpecPack == Init /\ [][NextPack]_vars

\* the i-th (from 0) 23-bit little-endian field of a byte buffer
FieldAt(buf, i) ==
    SumInt([b \in 1..23 |->
              Bit(buf[((23 * i + b - 1) \div 8) + 1], (23 * i + b - 1) % 8) * 2 ^ (b - 1)])
\* the coefficient of the drawn polynomials that the i-th field holds
CoeffAt(polys, dim, i) ==
    polys[(i \div (dim * PackN)) + 1][((i \div PackN) % dim) + 1][(i % PackN) + 1]
\* C23: unpackPolys throws unless the buffer has exactly K_iter * dim * 736
\* (here PackBytes) bytes and every 23-bit little-endian field is below Q;
\* what it returns are the fields; on the packing of polynomials with
\* coefficients in [0, Q) it returns those polynomials; and no step of the
\* bit arithmetic of either direction reaches 2^31.
UnpackInvertsPack ==
    /\ pc = "packed" =>
         /\ Len(out.buf) = sess.K_iter * sess.dim * PackBytes
         /\ \A x \in 1..Len(out.buf) : out.buf[x] \in 0..255
         /\ \A i \in 0..(sess.K_iter * sess.dim * PackN - 1) :
               FieldAt(out.buf, i) = CoeffAt(sess.polys, sess.dim, i)
         /\ ~out.over
    /\ pc = "unpacked" =>
         /\ out.res.err = "" <=>
              /\ Len(out.handed) = sess.K_iter * sess.dim * PackBytes
              /\ \A i \in 0..(sess.K_iter * sess.dim * PackN - 1) : FieldAt(out.handed, i) < Q
         /\ out.res.err = "" =>
              \A i \in 0..(sess.K_iter * sess.dim * PackN - 1) :
                 CoeffAt(out.res.polys, sess.dim, i) = FieldAt(out.handed, i)
         /\ out.handed = out.buf => (out.res.err = "" /\ out.res.polys = sess.polys)
         /\ ~out.res.over
UnpackedBoth ==
    /\ pc = "unpacked" /\ out.handed = out.buf /\ out.res.polys = sess.polys
    /\ sess.K_iter = 2 /\ sess.dim = 2 /\ out.res.max >= 2 ^ 29
    /\ \E i \in 1..PackN : sess.polys[1][1][i] = Q - 1

(*********************** specification SpecHint ***************************)
\* hintCoder.decode as a function of its bytes: every buffer of
\* HintOmega + HintRows bytes whose index bytes are below the degree of the
\* ring and whose cursor bytes are at most HintOmega + 1 is handed to it.
HintRows == 2
HintOmega == 3
HintPrm == [K |-> HintRows, OMEGA |-> HintOmega]
HintBuffers ==
    {b \in [1..(HintOmega + HintRows) -> 0..(HintOmega + 1)] :
        \A x \in 1..HintOmega : b[x] < PolyN}
HintHand ==
    /\ pc = "start"
    /\ \E buf \in HintBuffers : sess' = [buf |-> buf]
    /\ pc' = "hinthanded"
    /\ UNCHANGED <<cfg, keys, coms, wfin, rsps, st2, out>>
HintDecode ==
    /\ pc = "hinthanded"
    /\ out' = [op |-> "hintDecode", res |-> hintDecode(HintPrm, sess.buf)]
    /\ pc' = "hintdecoded"
    /\ UNCHANGED <<cfg, keys, sess, coms, wfin, rsps, st2>>
NextHint ==
    \/ HintHand
    \/ HintDecode
SpecHint == Init /\ [][NextHint]_vars

\* the cursor of row i (1..K) of the buffer, 0 before the first row
CursorOf(buf, i) == IF i = 0 THEN 0 ELSE buf[HintOmega + i]
CursorDecreases(buf) == \E i \in 1..HintRows : CursorOf(buf, i) < CursorOf(buf, i - 1)
\* two neighbouring index bytes of one row (positions from 0) do not increase
RowNotIncreasing(buf) ==
    \E i \in 1..HintRows :
       \E j \in (CursorOf(buf, i - 1) + 1)..(Min(CursorOf(buf, i), HintOmega) - 1) :
          buf[j + 1] <= buf[j]
TrailingNonzero(buf) ==
    \E j \in CursorOf(buf, HintRows)..(HintOmega - 1) : buf[j + 1] # 0
\* C24: the hint decoder returns false for every buffer of omega + K bytes
\* in which a cursor byte is smaller than the cursor before it, two
\* neighbouring indices of one row are not strictly increasing, or a byte
\* between the last cursor and position omega is not zero.
HintDecoderRejects ==
    pc = "hintdecoded" =>
       ((CursorDecreases(sess.buf) \/ RowNotIncreasing(sess.buf) \/ TrailingNonzero(sess.buf))
           => ~out.res.ok)
HintRejectedForTrailing ==
    /\ pc = "hintdecoded" /\ ~out.res.ok
    /\ ~CursorDecreases(sess.buf) /\ ~RowNotIncreasing(sess.buf)
    /\ TrailingNonzero(sess.buf)
    /\ \A i \in 1..HintRows : CursorOf(sess.buf, i) <= HintOmega

\* C25: every signature for which verify returns true, whoever made it,
\* decodes to a hint whose ones, counted over all K rows, are at most OMEGA
\* and to a response z whose every coefficient is, centred, strictly below
\* GAMMA1 - BETA in absolute value.
HintOnes(p, h) == SumInt(TupleTo([i \in 1..p.K |-> SumInt(h[i])], p.K))
ActiveSets(T, N_) == {a \in 1..(2 ^ N_ - 1) : PopCount(a) = T}
RecoverChoose ==
    /\ pc = "start"
    /\ \E N_ \in 3..MAX_PARTIES, seed \in Seeds :
         \E T \in 2..(N_ - 1) :
            \E act \in ActiveSets(T, N_) :
               /\ cfg' = [level |-> 44, params |-> [err |-> "", T |-> T, N |-> N_]]
               /\ keys' = keygen(44, T, N_, seed)
               /\ sess' = [act |-> act]
    /\ rsps' = << >>
    /\ pc' = "recovering"
    /\ UNCHANGED <<coms, wfin, st2, out>>
RecoverShare ==
    /\ pc = "recovering"
    /\ LET id == Ascending({i \in Parties(cfg.params.N) : Bit(sess.act, i) = 1})[Len(rsps) + 1]
       IN  rsps' = Append(rsps,
                          [id |-> id,
                           masks |-> recoverMasks(cfg.params.T, cfg.params.N, id, sess.act),
                           rec |-> recoverShare(Prm, cfg.params.T, cfg.params.N,
                                                keys.shares[id], sess.act)])
    /\ pc' = IF Len(rsps') = cfg.params.T THEN "recovered" ELSE "recovering"
    /\ UNCHANGED <<cfg, keys, sess, coms, wfin, st2, out>>
NextRecover == RecoverChoose \/ RecoverShare
SpecRecover == Init /\ [][NextRecover]_vars

\* the share keygen sampled for the mask b, read from its lowest holder
DealtShare(b) == keys.shares[CHOOSE i \in Parties(cfg.params.N) :
                               Bit(b, i) = 1 /\ \A j \in 0..(i - 1) : Bit(b, j) = 0].shares[b]
\* the secret: the sum of the shares of all the masks
FullSecret(f, d) ==
    Let(Ascending(WithBits(cfg.params.N, cfg.params.N - cfg.params.T + 1)), LAMBDA bs :
        VecSum(TupleTo([x \in 1..Len(bs) |-> DealtShare(bs[x])[f]], Len(bs)), d))
\* the sum of what the active parties recovered
RecoveredSum(f, d) == VecSum(TupleTo([x \in 1..Len(rsps) |-> rsps[x].rec[f]], Len(rsps)), d)
\* C26: for 2 <= T < N <= 6 and an active set of exactly T parties, every
\* mask the active party i sums has N - T + 1 bits and has bit i, so that
\* no recovery throws; over the T active parties every mask of N - T + 1
\* bits is summed exactly once, and the recovered shares add up to the
\* secret (which gives the t1 of the public key).
RecoveryCoversEveryMask ==
    pc \in {"recovering", "recovered"} =>
        /\ \A x \in 1..Len(rsps) :
              /\ rsps[x].rec.err = "" /\ rsps[x].masks.err = ""
              /\ \A y \in 1..Len(rsps[x].masks.us) :
                    /\ PopCount(rsps[x].masks.us[y]) = cfg.params.N - cfg.params.T + 1
                    /\ Bit(rsps[x].masks.us[y], rsps[x].id) = 1
        /\ pc = "recovered" =>
              /\ \A b \in WithBits(cfg.params.N, cfg.params.N - cfg.params.T + 1) :
                    Cardinality({xy \in (1..Len(rsps)) \X (1..MAX_PARTIES * MAX_PARTIES) :
                                   /\ xy[2] <= Len(rsps[xy[1]].masks.us)
                                   /\ rsps[xy[1]].masks.us[xy[2]] = b}) = 1
              /\ SumInt(TupleTo([x \in 1..Len(rsps) |-> Len(rsps[x].masks.us)], Len(rsps)))
                    = Binomial(cfg.params.N, cfg.params.N - cfg.params.T + 1)
              /\ RecoveredSum("s1Hat", Prm.L) = FullSecret("s1Hat", Prm.L)
              /\ RecoveredSum("s2Hat", Prm.K) = FullSecret("s2Hat", Prm.K)
              /\ publicDecode(keys.publicKey).t1 =
                    TupleTo([i \in 1..Prm.K |->
                               polyPowerRound(
                                   VecAdd(MatVec(Prm, ExpandA(Prm, keys.publicKey.rho),
                                                 RecoveredSum("s1Hat", Prm.L)),
                                          VecInvNTT(RecoveredSum("s2Hat", Prm.K)))[i]).r1],
                            Prm.K)
\* four of six parties, not the first four, have recovered
RecoveredByLaterParties ==
    /\ pc = "recovered" /\ cfg.params.N = 6 /\ cfg.params.T = 4 /\ sess.act = 58
    /\ \A x \in 1..Len(rsps) : rsps[x].rec.err = ""

(*********************** specification SpecUseHint ************************)
\* decompose, MakeHint and UseHint on numbers: w and f are drawn around the
\* places where the high bits change (the multiples of GAMMA2, both ends of
\* [0, Q)) and where the hint changes (|w0 + f| around GAMMA2), for the two
\* values of GAMMA2.
HintLevels == {44, 65}
HintWs(p) ==
    {w \in {k * p.GAMMA2 + d : k \in {0, 1, 2, 3, 42, 43, 44, 86, 87, 88, 14, 15, 16, 30, 31, 32},
                               d \in -2..2} : 0 <= w /\ w < Q}
HintFs(p) ==
    {f \in {s * b + d : s \in {-1, 1}, b \in {0, p.GAMMA2 \div 2, p.GAMMA2 - 1}, d \in -2..2} :
        Abs(f) < p.GAMMA2}
HintPick ==
    /\ pc = "start"
    /\ \E level \in HintLevels :
         /\ cfg' = [level |-> level, params |-> [err |-> "", T |-> 1, N |-> 1]]
         /\ \E w \in HintWs(PARAMS(level)), f \in HintFs(PARAMS(level)) :
              sess' = [w |-> w, f |-> f]
    /\ pc' = "hintpicked"
    /\ UNCHANGED <<keys, coms, wfin, rsps, st2, out>>
\* MakeHint(w0 + f, w1) as #combine calls it, UseHint(h, w + f) as verify
MakeAndUseHint ==
    /\ pc = "hintpicked"
    /\ LET d == decompose(Prm, sess.w)
           h == MakeHint(Prm, mod(d.r0 + sess.f), d.r1)
       IN  out' = [w1 |-> d.r1, w0 |-> d.r0, h |-> h,
                   used |-> UseHint(Prm, h, mod(sess.w + sess.f))]
    /\ pc' = "hintused"
    /\ UNCHANGED <<cfg, keys, sess, coms, wfin, rsps, st2>>
NextUseHint == HintPick \/ MakeAndUseHint
SpecUseHint == Init /\ [][NextUseHint]_vars

\* C27: for both values of GAMMA2, w in [0, Q) and f with |f| < GAMMA2
\* (centred), with (w1, w0) = decompose(w) and h = MakeHint((w0 + f) mod Q,
\* w1), UseHint(h, (w + f) mod Q) is w1.
UseHintRecoversHighBits ==
    pc = "hintused" =>
        /\ out.used = out.w1
        /\ sess.w = modm(out.w1 * 2 * Prm.GAMMA2 + out.w0, Q)
        /\ -Prm.GAMMA2 <= out.w0 /\ out.w0 <= Prm.GAMMA2
\* a hint was set for a w whose high bits are 0 and an f that takes w + f
\* into the highest interval
HintUsedAcrossZero ==
    /\ pc = "hintused" /\ out.h = 1 /\ out.w1 = 0 /\ sess.f < 0
    /\ HighBits(Prm, mod(sess.w + sess.f)) = (Q - 1) \div (2 * Prm.GAMMA2) - 1

(************************ specification SpecReuse *************************)
\* The session of SpecRounds, and after the round3 of every party the first
\* party again: it may destroy its Round1State, and it calls round2 for
\* another message (with the hashes it was handed) and round3 with the
\* Round1State of the session and the new Round2State.
OtherMsg == sess.msg \o <<1>>
Destroy1Used ==
    /\ pc = "combine"
    /\ ~coms[1].state.destroyed
    /\ coms' = [coms EXCEPT ![1].state = destroy1(@)]
    /\ UNCHANGED <<pc, cfg, keys, sess, wfin, rsps, st2, out>>
Round2Again ==
    /\ pc = "combine"
    /\ out' = [op |-> "round2again",
               r2 |-> round2(cfg.params, keys.shares[sess.ids[1]], sess.ids, OtherMsg,
                             sess.hashes, coms[1].state, sess.ctx)]
    /\ pc' = IF out'.r2.err # "" THEN "done" ELSE "round3again"
    /\ UNCHANGED <<cfg, keys, sess, coms, wfin, rsps, st2>>
Round3Again ==
    /\ pc = "round3again"
    /\ out' = [op |-> "round3again",
               res |-> round3(Prm, cfg.params, keys.shares[sess.ids[1]], sess.commitments,
                              coms[1].state, out.r2.state)]
    /\ pc' = "done"
    /\ UNCHANGED <<cfg, keys, sess, coms, wfin, rsps, st2>>
NextReuse ==
    \/ Create
    \/ Keygen
    \/ Open
    \/ Round1
    \/ Round2
    \/ Destroy1
    \/ Destroy2
    \/ Round3
    \/ Combine
    \/ Destroy1Used
    \/ Round2Again
    \/ Round3Again
SpecReuse == Init /\ [][NextReuse]_vars

\* C28: once round3 has returned a response computed from a Round1State, a
\* later call of round3 with that Round1State (and whatever Round2State)
\* returns no response: it throws.
Round1StateAnswersOnce ==
    (pc = "done" /\ out.op = "round3again" /\ rsps[1].err = "") => out.res.err # ""
\* the part of it that holds: after destroy() neither round returns
DestroyedStateAnswersNoMore ==
    /\ (pc = "done" /\ out.op = "round2again" /\ coms[1].state.destroyed) => out.r2.err # ""
    /\ (pc = "done" /\ out.op = "round3again") => ~coms[1].state.destroyed

(************************* specification SpecWide *************************)
\* The session of SpecRounds for active lists that round2 accepts: lists of
\* T parties, and lists of more than T distinct parties (the first T + 1,
\* all N).
WideLists(params) ==
    {[i \in 1..params.T |-> i - 1], [i \in 1..params.T |-> params.N - i]}
      \cup (IF params.T < params.N
            THEN {[i \in 1..(params.T + 1) |-> i - 1], [i \in 1..params.N |-> i - 1]}
            ELSE {})
OpenWide ==
    /\ pc = "keyed"
    /\ \E inp \in Inputs, entropy \in Entropies, ids \in WideLists(cfg.params) :
         sess' = [msg |-> inp.msg, ctx |-> inp.ctx, ids |-> ids, entropy |-> entropy,
                  hashes |-> << >>, commitments |-> << >>]
    /\ out' = [op |-> "open", err |-> ""]
    /\ pc' = "round1"
    /\ UNCHANGED <<cfg, keys, coms, wfin, rsps, st2>>
NextWide ==
    \/ Create
    \/ Keygen
    \/ OpenWide
    \/ Round1
    \/ Round2
    \/ Round3
    \/ Combine
SpecWide == Init /\ [][NextWide]_vars

\* round2 has returned to every party of the list
Round2AcceptedAll ==
    /\ pc \in {"round3", "combine", "done"}
    /\ Len(st2) = Len(sess.ids)
    /\ \A i \in 1..Len(st2) : st2[i].err = ""
\* what #recoverShare returns to the i-th party of the list in round3
RecoveredBy(i) ==
    recoverShare(Prm, cfg.params.T, cfg.params.N, keys.shares[sess.ids[i]], st2[i].state.act)
RecoveryErrors ==
    {"TypeError", "Missing share for bitmask", "No sharing pattern", "No shares available"}
\* C29: for every active list that round2 accepts, lists of more than T
\* distinct ids included, the share recovery of round3 succeeds for every
\* party of the list, and what the parties recover adds up to the secret,
\* the share of every mask counted once.
AcceptedListsRecover ==
    Round2AcceptedAll =>
        /\ \A i \in 1..Len(rsps) : rsps[i].err \notin RecoveryErrors
        /\ \A i \in 1..Len(sess.ids) : RecoveredBy(i).err = ""
        /\ VecSum(TupleTo([i \in 1..Len(sess.ids) |-> RecoveredBy(i).s1Hat], Len(sess.ids)),
                  Prm.L) = FullSecret("s1Hat", Prm.L)
        /\ VecSum(TupleTo([i \in 1..Len(sess.ids) |-> RecoveredBy(i).s2Hat], Len(sess.ids)),
                  Prm.K) = FullSecret("s2Hat", Prm.K)
\* the same for the lists of exactly T parties, where it holds
ListsOfTRecover ==
    (Round2AcceptedAll /\ Len(sess.ids) = cfg.params.T) =>
        /\ \A i \in 1..Len(rsps) : rsps[i].err \notin RecoveryErrors
        /\ \A i \in 1..Len(sess.ids) : RecoveredBy(i).err = ""
        /\ VecSum(TupleTo([i \in 1..Len(sess.ids) |-> RecoveredBy(i).s1Hat], Len(sess.ids)),
                  Prm.L) = FullSecret("s1Hat", Prm.L)
        /\ VecSum(TupleTo([i \in 1..Len(sess.ids) |-> RecoveredBy(i).s2Hat], Len(sess.ids)),
                  Prm.K) = FullSecret("s2Hat", Prm.K)

(*********************** specification SpecInternal ***********************)
\* keygen, then internal.sign called directly: with the formatted message,
\* or with externalMu and the mu the caller computed.  sess.handed is the
\* content of the caller's array when the call is made, sess.buf the
\* content of the same array as the call goes on and returns.
InternalSignStart ==
    /\ pc = "mlkeyed"
    /\ \E inp \in Inputs, externalMu \in BOOLEAN, entropy \in MlEntropies :
         sess' = [signs |-> 0, msg |-> inp.msg, ctx |-> inp.ctx, externalMu |-> externalMu,
                  handed |-> IF externalMu
                             THEN shake256(keys.secretKey.tr \o getMessage(inp.msg, inp.ctx),
                                           CRH_BYTES)
                             ELSE getMessage(inp.msg, inp.ctx),
                  buf |-> IF externalMu
                          THEN shake256(keys.secretKey.tr \o getMessage(inp.msg, inp.ctx),
                                        CRH_BYTES)
                          ELSE getMessage(inp.msg, inp.ctx),
                  kappa |-> 0, rnd |-> randomBytes(entropy, 0)]
    /\ out' = [err |-> internalPrepare(Prm, sess'.buf, keys.secretKey, sess'.rnd,
                                       sess'.externalMu).err,
               sig |-> << >>, valid |-> FALSE]
    /\ pc' = IF out'.err # "" THEN "insigned" ELSE "insigning"
    /\ UNCHANGED <<cfg, keys, coms, wfin, rsps, st2>>
\* one pass of main_loop, with the cleanBytes and the return that follow an
\* accepted pass
InternalSignPass ==
    /\ pc = "insigning"
    /\ sess.kappa < MaxAttempts * Prm.L
    /\ rsps' = signIter(Prm, internalPrepare(Prm, sess.buf, keys.secretKey, sess.rnd,
                                             sess.externalMu), sess.kappa)
    /\ sess' = [sess EXCEPT !.kappa = @ + Prm.L,
                            !.signs = IF rsps'.ok THEN @ + 1 ELSE @,
                            !.buf = IF rsps'.ok THEN msgAfterSign(@, sess.externalMu) ELSE @]
    /\ out' = IF rsps'.ok THEN [out EXCEPT !.sig = rsps'.sig] ELSE out
    /\ keys' = IF rsps'.ok THEN [keys EXCEPT !.secretKey = cleanedKey(@)] ELSE keys
    /\ pc' = IF rsps'.ok THEN "insigned" ELSE "insigning"
    /\ UNCHANGED <<cfg, coms, wfin, st2>>
NextInternal == MlKeygen \/ InternalSignStart \/ InternalSignPass
SpecInternal == Init /\ [][NextInternal]_vars

\* C30: when internal.sign returns, the caller's message array holds the
\* bytes it held when the call was made, with externalMu and without.
InternalSignLeavesMessage == pc = "insigned" => sess.buf = sess.handed
\* the same without externalMu, where it holds
InternalSignLeavesFormatted ==
    (pc = "insigned" /\ ~sess.externalMu) => sess.buf = sess.handed

====
